---- MODULE Spec2Model ----
(***************************************************************************)
(* A model of hashguard (javaLux/hashguard): the local content hasher      *)
(* (src/src/local.rs), the digest engine (src/src/hasher.rs) and the       *)
(* download pipeline (src/src/download.rs).                                *)
(*                                                                         *)
(* Byte strings are sequences of naturals 0..255; a path is a sequence of  *)
(* components, each a byte string.  The SHA-2 / SHA-3 crates are external: *)
(* a digest is modelled as a collision-free function of the algorithm and  *)
(* of the concatenation of all bytes fed to the hasher, so two digests of  *)
(* the model are equal exactly when the real ones are fed the same bytes.  *)
(***************************************************************************)
EXTENDS Integers, Sequences, FiniteSets, TLC

----------------------------------------------------------------------------
(* Bounds of the model *)

\* Longest file content, in bytes.
MaxContentLen == 2

\* Largest number of bytes one read() call returns (utils::CAPACITY scaled down).
MaxRead == 2

\* Largest number of entries under the root of a hashed directory.
MaxEntries == 3

\* Longest file name of the rename scenario, in bytes.
MaxNameLen == 3

----------------------------------------------------------------------------
(* Option and Result values *)

None == [some |-> FALSE]

Some(v) == [some |-> TRUE, val |-> v]

Ok(v) == [ok |-> TRUE, val |-> v]

Err(e) == [ok |-> FALSE, err |-> e]

\* An error whose message names a path (anyhow!(msg) with the path in msg).
ErrAt(msg, path) == Err([msg |-> msg, path |-> path])

----------------------------------------------------------------------------
(* Byte strings *)

\* All sequences over S of length lo..hi.
SeqsOf(S, lo, hi) == UNION {[1..n -> S] : n \in lo..hi}

RECURSIVE Concat(_)
\* The concatenation of a sequence of byte strings.
Concat(ss) == IF ss = <<>> THEN <<>> ELSE Head(ss) \o Concat(Tail(ss))

\* Lexicographic order on byte strings (Ord for [u8] / OsStr).
RECURSIVE BytesLess(_, _)
BytesLess(a, b) ==
    IF b = <<>> THEN FALSE
    ELSE IF a = <<>> THEN TRUE
    ELSE IF Head(a) # Head(b) THEN Head(a) < Head(b)
    ELSE BytesLess(Tail(a), Tail(b))

----------------------------------------------------------------------------
(* Digest engine: src/src/hasher.rs *)

Algorithm ==
    {"SHA2_224", "SHA2_256", "SHA2_384", "SHA2_512",
     "SHA3_224", "SHA3_256", "SHA3_384", "SHA3_512"}

\* The position of a variant in the enum, used to tell the digests of
\* different algorithms apart.
AlgorithmTag(a) ==
    CASE a = "SHA2_224" -> 0 [] a = "SHA2_256" -> 1
      [] a = "SHA2_384" -> 2 [] a = "SHA2_512" -> 3
      [] a = "SHA3_224" -> 4 [] a = "SHA3_256" -> 5
      [] a = "SHA3_384" -> 6 [] a = "SHA3_512" -> 7

\* Hasher::new: a fresh state of the chosen variant.
Hasher_new(algorithm) == [alg |-> algorithm, fed |-> <<>>]

\* Hasher::update: the variant absorbs the bytes after those it already holds.
Hasher_update(h, data) == [h EXCEPT !.fed = @ \o data]

\* The raw digest of a byte string under an algorithm (X::digest / finalize of
\* the external crates): collision-free, and different for each algorithm.
RawDigest(algorithm, data) == <<AlgorithmTag(algorithm)>> \o data

\* Hasher::finalize: consumes the state and returns the raw digest bytes.
Hasher_finalize(h) == RawDigest(h.alg, h.fed)

HexDigits ==
    <<"0", "1", "2", "3", "4", "5", "6", "7",
      "8", "9", "a", "b", "c", "d", "e", "f">>

RECURSIVE hex_encode(_)
\* hex::encode, and format!("{:x}") of a digest: two lowercase hex digits per byte.
hex_encode(bytes) ==
    IF bytes = <<>> THEN <<>>
    ELSE <<HexDigits[(Head(bytes) \div 16) + 1], HexDigits[(Head(bytes) % 16) + 1]>>
         \o hex_encode(Tail(bytes))

\* Hasher::digest_hex_lower: one-shot digest of data already in memory.
digest_hex_lower(h, data) == hex_encode(RawDigest(h.alg, data))

\* local::get_buffer_hash
get_buffer_hash(buffer, algorithm) == digest_hex_lower(Hasher_new(algorithm), buffer)

----------------------------------------------------------------------------
(* Paths: std::path as used by src/src/local.rs *)

\* The separator byte '/' that joins the components of a displayed path.
Slash == 47

\* The component "." (Component::CurDir).
CurDir == <<46>>

\* The component ".." (Component::ParentDir).
ParentDir == <<46, 46>>

RECURSIVE components(_)
\* Path::components: a "." is a component only at the start of the path;
\* every later "." is skipped.
components(path) ==
    IF Len(path) <= 1 THEN path
    ELSE IF path[Len(path)] = CurDir THEN components(SubSeq(path, 1, Len(path) - 1))
    ELSE Append(components(SubSeq(path, 1, Len(path) - 1)), path[Len(path)])

\* Path::file_name: the final component when it is a normal one
\* (components().next_back() is Component::Normal).
file_name(path) ==
    LET comps == components(path)
    IN IF comps = <<>> \/ comps[Len(comps)] \in {CurDir, ParentDir}
       THEN None
       ELSE Some(comps[Len(comps)])

\* Path::strip_prefix: the components of path after those of base.
strip_prefix(path, base) ==
    LET comps == components(path)
        prefix == components(base)
    IN IF Len(prefix) <= Len(comps) /\ SubSeq(comps, 1, Len(prefix)) = prefix
       THEN Ok(SubSeq(comps, Len(prefix) + 1, Len(comps)))
       ELSE Err("StripPrefixError")

\* The length of the UTF-8 sequence a byte starts (core::str UTF8_CHAR_WIDTH):
\* 0 for a byte that starts none (0x80..0xC1, 0xF5..0xFF).
utf8_char_width(b) ==
    IF b < 128 THEN 1
    ELSE IF b >= 194 /\ b <= 223 THEN 2
    ELSE IF b >= 224 /\ b <= 239 THEN 3
    ELSE IF b >= 240 /\ b <= 244 THEN 4
    ELSE 0

\* A continuation byte, 0x80..0xBF.
IsContinuation(b) == b >= 128 /\ b <= 191

\* The second byte a lead byte of a 3- or 4-byte sequence admits: no
\* overlong form, no surrogate, nothing above U+10FFFF.
SecondByteOk(first, second) ==
    CASE first = 224 -> second >= 160 /\ second <= 191
      [] first = 237 -> second >= 128 /\ second <= 159
      [] first = 240 -> second >= 144 /\ second <= 191
      [] first = 244 -> second >= 128 /\ second <= 143
      [] OTHER -> IsContinuation(second)

\* Utf8Chunks::next on a non-empty byte string: the length of the first
\* well-formed character, or of the maximal ill-formed prefix that one
\* U+FFFD replaces.
Utf8Chunk(bytes) ==
    LET n == Len(bytes)
        w == utf8_char_width(bytes[1])
    IN IF w = 0 THEN [valid |-> FALSE, len |-> 1]
       ELSE IF w = 1 THEN [valid |-> TRUE, len |-> 1]
       ELSE IF w = 2
            THEN IF n >= 2 /\ IsContinuation(bytes[2])
                 THEN [valid |-> TRUE, len |-> 2]
                 ELSE [valid |-> FALSE, len |-> 1]
       ELSE IF n < 2 \/ ~SecondByteOk(bytes[1], bytes[2])
            THEN [valid |-> FALSE, len |-> 1]
       ELSE IF n < 3 \/ ~IsContinuation(bytes[3])
            THEN [valid |-> FALSE, len |-> 2]
       ELSE IF w = 3 THEN [valid |-> TRUE, len |-> 3]
       ELSE IF n < 4 \/ ~IsContinuation(bytes[4])
            THEN [valid |-> FALSE, len |-> 3]
       ELSE [valid |-> TRUE, len |-> 4]

RECURSIVE from_utf8(_)
\* std::str::from_utf8(bytes).is_ok(): every chunk is a well-formed character.
from_utf8(bytes) ==
    IF bytes = <<>> THEN TRUE
    ELSE LET c == Utf8Chunk(bytes)
         IN c.valid /\ from_utf8(SubSeq(bytes, c.len + 1, Len(bytes)))

\* U+FFFD REPLACEMENT CHARACTER in UTF-8.
ReplacementChar == <<239, 191, 189>>

RECURSIVE to_string_lossy(_)
\* OsStr::to_string_lossy(..).as_bytes(): well-formed characters unchanged,
\* each maximal ill-formed sequence replaced by one U+FFFD.
to_string_lossy(bytes) ==
    IF bytes = <<>> THEN <<>>
    ELSE LET c == Utf8Chunk(bytes)
         IN (IF c.valid THEN SubSeq(bytes, 1, c.len) ELSE ReplacementChar)
            \o to_string_lossy(SubSeq(bytes, c.len + 1, Len(bytes)))

RECURSIVE OsStrOf(_)
\* The bytes of a path: its components joined by the separator.
OsStrOf(path) ==
    IF path = <<>> THEN <<>>
    ELSE IF Len(path) = 1 THEN path[1]
    ELSE path[1] \o <<Slash>> \o OsStrOf(Tail(path))

\* path.to_string_lossy().as_bytes(), the bytes a name contributes to a digest.
PathBytes(path) == to_string_lossy(OsStrOf(path))

RECURSIVE PathLess(_, _)
\* Ord for Path: component by component, each component by its bytes.
PathLess(p1, p2) ==
    IF p2 = <<>> THEN FALSE
    ELSE IF p1 = <<>> THEN TRUE
    ELSE IF Head(p1) # Head(p2) THEN BytesLess(Head(p1), Head(p2))
    ELSE PathLess(Tail(p1), Tail(p2))

----------------------------------------------------------------------------
(* The directory walk: WalkDir::new(root).sort_by_key(path), local.rs:188-194 *)

\* An entry of the tree under a root: its path relative to the root, its
\* kind ("file" or "dir") and, for a file, its content.
FileEntry(rel, content) == [path |-> rel, kind |-> "file", content |-> content]

DirEntry(rel) == [path |-> rel, kind |-> "dir", content |-> <<>>]

\* The parent directory of a relative path.
Parent(rel) == SubSeq(rel, 1, Len(rel) - 1)

\* The operating system's listing of directory dir: its children in the
\* order the file system happens to return them (os_order lists all entries).
ReadDir(os_order, dir) ==
    LET IsChild(e) == Len(e.path) >= 1 /\ Parent(e.path) = dir
    IN SelectSeq(os_order, IsChild)

RECURSIVE Insert(_, _)
\* Insert e into a list sorted by path, after the entries that are not greater.
Insert(e, sorted) ==
    IF sorted = <<>> THEN <<e>>
    ELSE IF PathLess(e.path, Head(sorted).path) THEN <<e>> \o sorted
    ELSE <<Head(sorted)>> \o Insert(e, Tail(sorted))

\* A walk that keeps the order of the directory listing.
sort_by_key_Unsorted(list) == list

RECURSIVE sort_by_key(_)
\* sort_by_key(|e| e.path().to_path_buf()): a stable sort of one directory's
\* children by path.
sort_by_key(list) ==
    IF list = <<>> THEN <<>>
    ELSE Insert(list[Len(list)], sort_by_key(SubSeq(list, 1, Len(list) - 1)))

\* The Err item the walk yields in place of the entries of a directory it
\* cannot list (walkdir::Error).
WalkError(dir) == [path |-> dir, kind |-> "error", content |-> <<>>]

RECURSIVE WalkList(_, _, _, _)
\* The walk of a sorted list of siblings: each entry, followed at once by the
\* walk of its own children when it is a directory, or by one Err item when
\* the directory cannot be listed.
WalkList(root, os_order, siblings, unreadable) ==
    IF siblings = <<>> THEN <<>>
    ELSE LET e == Head(siblings)
         IN <<[e EXCEPT !.path = root \o e.path]>>
            \o (IF e.kind # "dir" THEN <<>>
                ELSE IF e.path \in unreadable THEN <<WalkError(root \o e.path)>>
                ELSE WalkList(root, os_order, sort_by_key(ReadDir(os_order, e.path)),
                              unreadable))
            \o WalkList(root, os_order, Tail(siblings), unreadable)

\* WalkDir::new(root)...into_iter(): the root first, then the walk below it;
\* every yielded path starts with the root as given.
WalkDir(root, os_order, unreadable) ==
    <<[path |-> root, kind |-> "dir", content |-> <<>>]>>
    \o (IF <<>> \in unreadable THEN <<WalkError(root)>>
        ELSE WalkList(root, os_order, sort_by_key(ReadDir(os_order, <<>>)), unreadable))

\* .filter_map(Result::ok): the Ok items, the Err items left out.
filter_map_ok(items) ==
    LET IsOk(e) == e.kind # "error"
    IN SelectSeq(items, IsOk)

\* .filter_map(Result::ok).filter(|entry| entry.path() != root).collect():
\* the entries of hash_directory, the root excluded.
CollectEntries(root, os_order, unreadable) ==
    LET NotRoot(e) == e.path # root
    IN SelectSeq(filter_map_ok(WalkDir(root, os_order, unreadable)), NotRoot)

----------------------------------------------------------------------------
(* hash_directory and hash_file as functions of the disk: local.rs:128-273,  *)
(* every open and read succeeding                                           *)

RECURSIVE FeedAll(_, _)
\* The hasher after update(d) for each d of feed, in order.
FeedAll(h, feed) ==
    IF feed = <<>> THEN h ELSE FeedAll(Hasher_update(h, Head(feed)), Tail(feed))

\* local.rs:199-203 and 144-148: the base name of the hashed object, fed
\* first when names are included and the path has a base name.
BaseNameFeed(path, include_names) ==
    IF include_names /\ file_name(path).some
    THEN <<to_string_lossy(file_name(path).val)>>
    ELSE <<>>

\* local.rs:211-226: the name an entry contributes, its path relative to the
\* root, or the failure of strip_prefix.
EntryNameFeed(root, e, include_names) ==
    IF ~include_names THEN Ok(<<>>)
    ELSE LET relative_path == strip_prefix(e.path, root)
         IN IF relative_path.ok
            THEN Ok(<<PathBytes(relative_path.val)>>)
            ELSE ErrAt("Failed to strip prefix from path", e.path)

RECURSIVE EntriesFeed(_, _, _)
\* The update calls of the entry loop when every file is read in one piece.
EntriesFeed(root, entries, include_names) ==
    IF entries = <<>> THEN <<>>
    ELSE LET e == Head(entries)
             name == EntryNameFeed(root, e, include_names)
         IN (IF name.ok THEN name.val ELSE <<>>)
            \o (IF e.kind = "file" /\ e.content # <<>> THEN <<e.content>> ELSE <<>>)
            \o EntriesFeed(root, Tail(entries), include_names)

\* hash_directory on a tree listed in os_order, no I/O failing.
hash_directory(root, os_order, algorithm, include_names) ==
    LET entries == CollectEntries(root, os_order, {})
        feed == BaseNameFeed(root, include_names)
                \o EntriesFeed(root, entries, include_names)
    IN hex_encode(Hasher_finalize(FeedAll(Hasher_new(algorithm), feed)))

\* local::hash_file when the file is opened and read without an error: the
\* base name, when names are included, then the content (local.rs:128-176).
hash_file(path, file_content, algorithm, include_names) ==
    hex_encode(Hasher_finalize(
        FeedAll(Hasher_new(algorithm),
                BaseNameFeed(path, include_names) \o <<file_content>>)))

\* All listings of a set of entries: its permutations.
Listings(tree) ==
    LET n == Cardinality(tree)
    IN {f \in [1..n -> tree] : \A i, j \in 1..n : f[i] = f[j] => i = j}

----------------------------------------------------------------------------
(* State *)

VARIABLES
    p,              \* get_hash_for_object: the path to hash, as given
    is_dir,         \* the disk: whether p is a directory
    tree,           \* the disk: the entries under p when it is a directory
    unreadable,     \* the disk: the directories under p that cannot be listed
    content,        \* the disk: the content of p when it is a file
    algorithm,      \* the selected Algorithm
    include_names,  \* the include_names flag
    pcC,            \* the calling thread's position in get_hash_for_object
    pcW,            \* the Hash-Worker-Thread's position
    chan,           \* the mpsc channel: messages sent and not yet received
    received,       \* the caller's local `result` (what recv returned)
    ret,            \* what get_hash_for_object returned
    entries,        \* hash_directory: the collected entries
    idx,            \* hash_directory: the index of the current entry
    hasher,         \* the worker's Hasher, None once finalize consumed it
    reader,         \* the open file being read, None when no file is open
    buf,            \* the read buffer, reused by every read
    result,         \* hash_file's / hash_directory's `result: Result<()>`
    worker_result,  \* the worker closure's `result`, the value it sends
    log,            \* history: the hasher and file-system calls made so far
    renamed,        \* rename scenario: the tree after one file was renamed
    digest_a,       \* rename scenario: the digest of the tree before the rename
    digest_b,       \* rename scenario: the digest of the tree after the rename
    response,           \* download: the server's response (headers and body)
    default_file_name,  \* download: DownloadProperties::default_file_name
    content_disposition_name,  \* download: the name the Content-Disposition header gives
    url_name,           \* download: the name the path of the response URL gives
    os_type,            \* the OS the program runs on
    dl_pc,              \* download: the position in execute_download
    file_size_state,    \* download: the FileSizeState, None until determined
    consulted,          \* download: history, the size strategies called
    filename,           \* download: the resolved file name
    dest,               \* download: the destination file on disk, None until created
    writer,             \* download: the bytes the BufWriter holds, not yet in the file
    interrupted,        \* download: whether the user has pressed Ctrl-C
    interrupt_reads,    \* download: history, the number of body reads made when Ctrl-C came
    body_off,           \* download: the bytes of the body read so far
    body_reads,         \* download: history, the number of body reads
    downloaded_bytes,   \* download: the loop's downloaded_bytes
    pb_position,        \* download: the progress bar's position
    download_result,    \* download: the loop's download_result
    dl_ret,             \* download: what execute_download returned
    sanitize_input,     \* file names: the name given to replace_invalid_chars_with_underscore
    sanitized,          \* file names: what it returned, None until called
    sanitized_twice,    \* file names: what it returned for its own result
    hash_input,         \* parse_hash: the input string
    parse_result,       \* parse_hash: what it returned, None until called
    args,               \* command: the parsed command-line arguments
    cmd_pc,             \* command: the position in the command's run
    cmd_result,         \* command: the CommandResult built, None until built
    cmd_log,            \* command: history, the validations and I/O made so far
    exit_status,        \* command: the exit status of the process, None while it runs
    cmp_input,          \* is_hash_equal: the two hash sums given
    cmp_result,         \* hasher::is_hash_equal: what it returned, None until called
    verify_cmp_result,  \* verify::is_hash_equal: what it returned, None until called
    pcL,                \* verify: the position of the thread listening for Ctrl-C
    is_calculating_checksum  \* verify: the flag the listener polls

inputVars == <<p, is_dir, tree, unreadable, content, algorithm, include_names>>

callerVars == <<pcC, received, ret>>

workerVars == <<pcW, entries, idx, hasher, reader, buf, result, worker_result>>

renameVars == <<renamed, digest_a, digest_b>>

localVars == <<inputVars, callerVars, workerVars, chan, log>>

dlInputVars == <<response, default_file_name, content_disposition_name, url_name, os_type>>

dlVars ==
    <<dlInputVars, dl_pc, file_size_state, consulted, filename, dest, body_off,
      body_reads, downloaded_bytes, pb_position, download_result, dl_ret,
      writer, interrupted, interrupt_reads>>

utilVars == <<sanitize_input, sanitized, sanitized_twice, hash_input, parse_result>>

cmdVars ==
    <<args, cmd_pc, cmd_result, cmd_log, exit_status, cmp_input, cmp_result,
      verify_cmp_result, pcL, is_calculating_checksum>>

\* What no step of get_hash_for_object changes.
fixedVars == <<inputVars, renameVars, dlVars, utilVars, cmdVars>>

----------------------------------------------------------------------------
(* Inputs *)

\* The bytes file contents are made of: 'x' and 'y'.
ContentBytes == {120, 121}

\* The contents of a hashed file.
Contents == SeqsOf(ContentBytes, 0, MaxContentLen)

\* The contents of the files of a hashed directory: "", "x" and "xy".
TreeContents == {<<>>, <<120>>, <<120, 121>>}

\* The algorithms directories are hashed with: the default and one other.
TreeAlgorithms == {"SHA2_256", "SHA3_512"}

\* The two entry names of a hashed directory: "a" and "b".
NameA == <<97>>

NameB == <<98>>

\* What may be at dir/name: nothing, a file, or an empty directory.
ChildOptions(dir, name) ==
    {{}} \cup {{FileEntry(dir \o <<name>>, c)} : c \in TreeContents}
         \cup {{DirEntry(dir \o <<name>>)}}

\* What may be at the top-level name: nothing, a file, or a directory with
\* any children.
TopOptions(name) ==
    {{}} \cup {{FileEntry(<<name>>, c)} : c \in TreeContents}
         \cup {{DirEntry(<<name>>)} \cup c1 \cup c2 :
                  c1 \in ChildOptions(<<name>>, NameA),
                  c2 \in ChildOptions(<<name>>, NameB)}

\* The directory trees hashed: every well-formed tree of depth two over the
\* two names with at most MaxEntries entries.
Trees ==
    {t \in {t1 \cup t2 : t1 \in TopOptions(NameA), t2 \in TopOptions(NameB)} :
        Cardinality(t) <= MaxEntries}

\* The directory paths hashed: "d", "." and "d/.".
DirPaths == {<<<<100>>>>, <<CurDir>>, <<<<100>>, CurDir>>}

\* The file paths hashed: "f" and "d/f".
FilePaths == {<<<<102>>>>, <<<<100>>, <<102>>>>}

----------------------------------------------------------------------------
(* Log events *)

\* A call of Hasher::update with data; about names what was fed (the
\* "base_name" of the hashed object, an "entry_name" or file "content") and
\* path the file or entry it was fed for.
UpdateEvent(about, path, data) ==
    [op |-> "update", about |-> about, data |-> data, path |-> path]

\* A successful File::open of path.
OpenEvent(path) == [op |-> "open", about |-> "", data |-> <<>>, path |-> path]

\* A call of Hasher::finalize.
FinalizeEvent == [op |-> "finalize", about |-> "", data |-> <<>>, path |-> <<>>]

\* A message sent into the channel.
SendEvent == [op |-> "send", about |-> "", data |-> <<>>, path |-> <<>>]

\* A failed open ("open_err"), read ("read_err") or strip_prefix
\* ("strip_err") on path.
FailEvent(op, path) == [op |-> op, about |-> "", data |-> <<>>, path |-> path]

\* The update events of a feed, in order.
UpdateEvents(about, path, feed) ==
    [i \in 1..Len(feed) |-> UpdateEvent(about, path, feed[i])]

\* The read buffer as allocated: [0u8; CAPACITY].
ZeroBuf == [i \in 1..MaxRead |-> 0]

\* The worker's and the caller's state before get_hash_for_object is called.
InitThreads ==
    /\ pcC = "call"
    /\ pcW = "unspawned"
    /\ chan = <<>>
    /\ received = None
    /\ ret = None
    /\ entries = <<>>
    /\ idx = 0
    /\ hasher = None
    /\ reader = None
    /\ buf = ZeroBuf
    /\ result = Ok(<<>>)
    /\ worker_result = None
    /\ log = <<>>

\* No rename scenario is played.
NoRename ==
    /\ renamed = None
    /\ digest_a = <<>>
    /\ digest_b = <<>>

\* No command is run and no comparison made.
NoCommand ==
    /\ args = None
    /\ cmd_pc = "idle"
    /\ cmd_result = None
    /\ cmd_log = <<>>
    /\ exit_status = None
    /\ cmp_input = <<>>
    /\ cmp_result = None
    /\ verify_cmp_result = None
    /\ pcL = "unspawned"
    /\ is_calculating_checksum = FALSE

\* Neither utility function is called.
NoCalls ==
    /\ sanitize_input = <<>>
    /\ sanitized = None
    /\ sanitized_twice = None
    /\ hash_input = <<>>
    /\ parse_result = None

\* execute_download not called, or called and nothing done yet.
DownloadAt(pc) ==
    /\ dl_pc = pc
    /\ file_size_state = None
    /\ consulted = <<>>
    /\ filename = <<>>
    /\ dest = None
    /\ writer = <<>>
    /\ interrupted = FALSE
    /\ interrupt_reads = 0
    /\ body_off = 0
    /\ body_reads = 0
    /\ downloaded_bytes = 0
    /\ pb_position = 0
    /\ download_result = None
    /\ dl_ret = None

\* No download is made.
NoDownload ==
    /\ response = None
    /\ default_file_name = None
    /\ content_disposition_name = None
    /\ url_name = None
    /\ os_type = "Linux"
    /\ DownloadAt("idle")

\* get_hash_for_object is about to be called on a directory.
InitDir ==
    /\ p \in DirPaths
    /\ is_dir = TRUE
    /\ tree \in Trees
    /\ unreadable = {}
    /\ content = <<>>
    /\ algorithm \in TreeAlgorithms
    /\ include_names \in BOOLEAN
    /\ InitThreads
    /\ NoRename
    /\ NoCommand
    /\ NoCalls
    /\ NoDownload

\* get_hash_for_object is about to be called on a regular file.
InitFile ==
    /\ p \in FilePaths
    /\ is_dir = FALSE
    /\ tree = {}
    /\ unreadable = {}
    /\ content \in Contents
    /\ algorithm \in Algorithm
    /\ include_names \in BOOLEAN
    /\ InitThreads
    /\ NoRename
    /\ NoCommand
    /\ NoCalls
    /\ NoDownload

----------------------------------------------------------------------------
(* Reading a file: reader.read(&mut buf), local.rs:153 and 233 *)

Min(a, b) == IF a <= b THEN a ELSE b

\* A reader on a just opened file.
OpenReader(path, data) == [path |-> path, content |-> data, off |-> 0]

\* The byte counts one read may return: 0 at end of file only, otherwise any
\* count up to the buffer size and the bytes left.
ReadCounts(r) ==
    IF r.off = Len(r.content) THEN {0}
    ELSE 1..Min(MaxRead, Len(r.content) - r.off)

\* A read that starts at the beginning of the file again.
BufAfterRead_Rewind(b, r, n) ==
    [i \in 1..MaxRead |-> IF i <= n THEN r.content[i] ELSE b[i]]

\* The buffer after a read of n bytes: the next n bytes of the file at its
\* start, the rest as it was.
BufAfterRead(b, r, n) ==
    [i \in 1..MaxRead |-> IF i <= n THEN r.content[r.off + i] ELSE b[i]]

\* A slice that takes the whole buffer whatever was read.
ReadSlice_WholeBuffer(b, n) == b

\* &buf[..n]: the bytes the read returned.
ReadSlice(b, n) == SubSeq(b, 1, n)

----------------------------------------------------------------------------
(* hash_directory, local.rs:180-273 *)

\* local.rs:185-207: create the spinner, collect the sorted entries, create
\* the hasher, feed the root's base name.  HashSpinner::new (local.rs:23-37)
\* starts the spinner's ticker thread and panics when that thread cannot be
\* started: the worker then unwinds without sending anything.
hash_directory_begin ==
    /\ pcW = "spawned"
    /\ is_dir
    /\ \E spinner_ok \in BOOLEAN :
         IF spinner_ok
         THEN /\ \E os_order \in Listings(tree) :
                    entries' = CollectEntries(p, os_order, unreadable)
              /\ LET feed == BaseNameFeed(p, include_names)
                 IN /\ hasher' = Some(FeedAll(Hasher_new(algorithm), feed))
                    /\ log' = log \o UpdateEvents("base_name", p, feed)
              /\ idx' = 1
              /\ result' = Ok(<<>>)
              /\ pcW' = "dir_loop"
         ELSE /\ pcW' = "panicked"
              /\ UNCHANGED <<entries, hasher, log, idx, result>>
    /\ UNCHANGED <<fixedVars, callerVars, chan, reader, buf, worker_result>>

\* local.rs:209-229, 257-267: one entry of the loop, up to the opening of its
\* file: feed its relative path, then open it when it is a regular file.
hash_directory_entry ==
    /\ pcW = "dir_loop"
    /\ idx <= Len(entries)
    /\ LET e == entries[idx]
           name == EntryNameFeed(p, e, include_names)
       IN IF ~name.ok
          THEN /\ result' = name
               /\ log' = Append(log, FailEvent("strip_err", e.path))
               /\ pcW' = "dir_end"
               /\ UNCHANGED <<hasher, reader, idx>>
          ELSE /\ hasher' = Some(FeedAll(hasher.val, name.val))
               /\ IF e.kind = "file"
                  THEN \E open_ok \in BOOLEAN :
                         IF open_ok
                         THEN /\ reader' = Some(OpenReader(e.path, e.content))
                              /\ log' = log \o UpdateEvents("entry_name", e.path, name.val)
                                            \o <<OpenEvent(e.path)>>
                              /\ pcW' = "dir_read"
                              /\ UNCHANGED <<result, idx>>
                         ELSE /\ result' = ErrAt("Failed to open file", e.path)
                              /\ log' = log \o UpdateEvents("entry_name", e.path, name.val)
                                            \o <<FailEvent("open_err", e.path)>>
                              /\ pcW' = "dir_end"
                              /\ UNCHANGED <<reader, idx>>
                  ELSE /\ idx' = idx + 1
                       /\ log' = log \o UpdateEvents("entry_name", e.path, name.val)
                       /\ UNCHANGED <<pcW, result, reader>>
    /\ UNCHANGED <<fixedVars, callerVars, chan, entries, buf, worker_result>>

\* local.rs:232-255: one read of the open file: feed the chunk, or leave the
\* inner loop at end of file, or break with the read error.
hash_directory_read ==
    /\ pcW = "dir_read"
    /\ \E read_ok \in BOOLEAN :
         IF read_ok
         THEN \E n \in ReadCounts(reader.val) :
                IF n = 0
                THEN /\ reader' = None
                     /\ idx' = idx + 1
                     /\ pcW' = "dir_loop"
                     /\ UNCHANGED <<hasher, buf, result, log>>
                ELSE /\ buf' = BufAfterRead(buf, reader.val, n)
                     /\ hasher' = Some(Hasher_update(hasher.val, ReadSlice(buf', n)))
                     /\ log' = Append(log, UpdateEvent("content", reader.val.path,
                                                     ReadSlice(buf', n)))
                     /\ reader' = Some([reader.val EXCEPT !.off = @ + n])
                     /\ UNCHANGED <<pcW, idx, result>>
         ELSE /\ result' = ErrAt("Failed to read from file", reader.val.path)
              /\ log' = Append(log, FailEvent("read_err", reader.val.path))
              /\ reader' = None
              /\ pcW' = "dir_end"
              /\ UNCHANGED <<hasher, buf, idx>>
    /\ UNCHANGED <<fixedVars, callerVars, chan, entries, worker_result>>

\* An end of hash_directory that finalizes whatever the loop's result was.
hash_directory_end_IgnoreError ==
    /\ \/ pcW = "dir_end"
       \/ pcW = "dir_loop" /\ idx > Len(entries)
    /\ worker_result' = Some(Ok(hex_encode(Hasher_finalize(hasher.val))))
    /\ log' = Append(log, FinalizeEvent)
    /\ hasher' = None
    /\ pcW' = "send"
    /\ UNCHANGED <<fixedVars, callerVars, chan, entries, idx, reader, buf, result>>

\* local.rs:270-272: after the loop, return the error or finalize and encode.
hash_directory_end ==
    /\ \/ pcW = "dir_end"
       \/ pcW = "dir_loop" /\ idx > Len(entries)
    /\ IF result.ok
       THEN /\ worker_result' = Some(Ok(hex_encode(Hasher_finalize(hasher.val))))
            /\ log' = Append(log, FinalizeEvent)
       ELSE /\ worker_result' = Some(result)
            /\ UNCHANGED log
    /\ hasher' = None
    /\ pcW' = "send"
    /\ UNCHANGED <<fixedVars, callerVars, chan, entries, idx, reader, buf, result>>

----------------------------------------------------------------------------
(* hash_file, local.rs:128-176 *)

\* local.rs:129-150: open the file, create the hasher and the spinner, feed
\* the base name.  A panic of HashSpinner::new (local.rs:141) unwinds the
\* worker after the file was opened and before anything was fed.
hash_file_begin ==
    /\ pcW = "spawned"
    /\ ~is_dir
    /\ \E open_ok, spinner_ok \in BOOLEAN :
         IF open_ok /\ spinner_ok
         THEN /\ reader' = Some(OpenReader(p, content))
              /\ LET feed == BaseNameFeed(p, include_names)
                 IN /\ hasher' = Some(FeedAll(Hasher_new(algorithm), feed))
                    /\ log' = log \o <<OpenEvent(p)>>
                                  \o UpdateEvents("base_name", p, feed)
              /\ pcW' = "file_read"
              /\ UNCHANGED worker_result
         ELSE IF open_ok
         THEN /\ log' = Append(log, OpenEvent(p))
              /\ pcW' = "panicked"
              /\ UNCHANGED <<reader, hasher, worker_result>>
         ELSE /\ worker_result' = Some(ErrAt("Failed to open file", p))
              /\ log' = Append(log, FailEvent("open_err", p))
              /\ pcW' = "send"
              /\ UNCHANGED <<reader, hasher>>
    /\ UNCHANGED <<fixedVars, callerVars, chan, entries, idx, buf, result>>

\* local.rs:152-171: one read: feed the chunk, or break at end of file, or
\* break with the read error.
hash_file_read ==
    /\ pcW = "file_read"
    /\ \E read_ok \in BOOLEAN :
         IF read_ok
         THEN \E n \in ReadCounts(reader.val) :
                IF n = 0
                THEN /\ result' = Ok(<<>>)
                     /\ reader' = None
                     /\ pcW' = "file_end"
                     /\ UNCHANGED <<hasher, buf, log>>
                ELSE /\ buf' = BufAfterRead(buf, reader.val, n)
                     /\ hasher' = Some(Hasher_update(hasher.val, ReadSlice(buf', n)))
                     /\ log' = Append(log, UpdateEvent("content", reader.val.path,
                                                     ReadSlice(buf', n)))
                     /\ reader' = Some([reader.val EXCEPT !.off = @ + n])
                     /\ UNCHANGED <<pcW, result>>
         ELSE /\ result' = ErrAt("Failed to read from file", reader.val.path)
              /\ log' = Append(log, FailEvent("read_err", reader.val.path))
              /\ reader' = None
              /\ pcW' = "file_end"
              /\ UNCHANGED <<hasher, buf>>
    /\ UNCHANGED <<fixedVars, callerVars, chan, entries, idx, worker_result>>

\* local.rs:173-175: return the error or finalize and encode.
hash_file_end ==
    /\ pcW = "file_end"
    /\ IF result.ok
       THEN /\ worker_result' = Some(Ok(hex_encode(Hasher_finalize(hasher.val))))
            /\ log' = Append(log, FinalizeEvent)
       ELSE /\ worker_result' = Some(result)
            /\ UNCHANGED log
    /\ hasher' = None
    /\ pcW' = "send"
    /\ UNCHANGED <<fixedVars, callerVars, chan, entries, idx, reader, buf, result>>

----------------------------------------------------------------------------
(* get_hash_for_object, local.rs:76-124 *)

\* local.rs:89-109: create the channel and spawn the worker; a failed spawn
\* returns at once.
spawn ==
    /\ pcC = "call"
    /\ \E spawn_ok \in BOOLEAN :
         IF spawn_ok
         THEN /\ pcW' = "spawned"
              /\ pcC' = "recv"
              /\ UNCHANGED ret
         ELSE /\ ret' = Some(ErrAt("Failed to spawn Hash-Worker-Thread.", <<>>))
              /\ pcC' = "returned"
              /\ UNCHANGED pcW
    /\ UNCHANGED <<fixedVars, received, chan, log,
                   entries, idx, hasher, reader, buf, result, worker_result>>

\* local.rs:102-104: the worker sends its result.
send ==
    /\ pcW = "send"
    /\ chan' = Append(chan, worker_result.val)
    /\ log' = Append(log, SendEvent)
    /\ pcW' = "sent"
    /\ UNCHANGED <<fixedVars, callerVars,
                   entries, idx, hasher, reader, buf, result, worker_result>>

\* local.rs:105: the closure returns and the worker thread ends.
worker_exit ==
    /\ pcW = "sent"
    /\ pcW' = "exited"
    /\ UNCHANGED <<fixedVars, callerVars, chan, log,
                   entries, idx, hasher, reader, buf, result, worker_result>>

\* The worker thread has ended: its closure returned, or it panicked.
WorkerEnded == pcW \in {"exited", "panicked"}

\* The worker of this call did not panic.
NoPanic == pcW # "panicked"

\* local.rs:112-115: receiver.recv() blocks until a message is in the channel,
\* and fails when the sender is gone (dropped at the end of the closure or by
\* the unwinding of a panic) and the channel is empty.
recv ==
    /\ pcC = "recv"
    /\ \/ chan # <<>>
       \/ WorkerEnded
    /\ IF chan # <<>>
       THEN /\ received' = Some(Ok(Head(chan)))
            /\ chan' = Tail(chan)
       ELSE /\ received' =
                  Some(ErrAt("Failed to receive hash sum from Hash-Worker-Thread.", <<>>))
            /\ UNCHANGED chan
    /\ pcC' = "join"
    /\ UNCHANGED <<fixedVars, workerVars, ret, log>>

\* local.rs:118-123: what the caller returns once handle.join() has returned:
\* the join error when the worker panicked (`?` at local.rs:121), else the
\* received result (`result?`).
join_result ==
    IF pcW = "panicked"
    THEN ErrAt("Failed to join Hash-Worker-Thread.", <<>>)
    ELSE IF received.val.ok THEN received.val.val ELSE received.val

\* A return that does not join the worker.
join_NoWait ==
    /\ pcC = "join"
    /\ ret' = Some(join_result)
    /\ pcC' = "returned"
    /\ UNCHANGED <<fixedVars, workerVars, received, chan, log>>

\* local.rs:118-123: handle.join() blocks until the worker has ended; a
\* panicked worker makes it fail, and the join error is returned in place of
\* the receive error.
join ==
    /\ pcC = "join"
    /\ WorkerEnded
    /\ ret' = Some(join_result)
    /\ pcC' = "returned"
    /\ UNCHANGED <<fixedVars, workerVars, received, chan, log>>

----------------------------------------------------------------------------
(* Specifications of the local content hasher *)

vars == <<localVars, renameVars, dlVars, utilVars, cmdVars>>

NextDir ==
    \/ spawn
    \/ hash_directory_begin
    \/ hash_directory_entry
    \/ hash_directory_read
    \/ hash_directory_end
    \/ send
    \/ worker_exit
    \/ recv
    \/ join

NextFile ==
    \/ spawn
    \/ hash_file_begin
    \/ hash_file_read
    \/ hash_file_end
    \/ send
    \/ worker_exit
    \/ recv
    \/ join

\* get_hash_for_object on a directory.
SpecDir == InitDir /\ [][NextDir]_vars

\* get_hash_for_object on a regular file.
SpecFile == InitFile /\ [][NextFile]_vars

\* get_hash_for_object on a directory or on a regular file.
InitLocal == InitDir \/ InitFile

NextLocal ==
    \/ spawn
    \/ hash_directory_begin
    \/ hash_directory_entry
    \/ hash_directory_read
    \/ hash_directory_end
    \/ hash_file_begin
    \/ hash_file_read
    \/ hash_file_end
    \/ send
    \/ worker_exit
    \/ recv
    \/ join

SpecLocal == InitLocal /\ [][NextLocal]_vars

----------------------------------------------------------------------------
(* Reading the log *)

IsUpdate(ev) == ev.op = "update"

IsContent(ev) == ev.op = "update" /\ ev.about = "content"

IsFailure(ev) == ev.op \in {"open_err", "read_err", "strip_err"}

\* The payloads of a sequence of events.
DataOf(evs) == [i \in 1..Len(evs) |-> evs[i].data]

\* The number of events of the log with the given op.
CountOp(op) == Cardinality({i \in 1..Len(log) : log[i].op = op})

\* The worker has produced a digest.
WorkerOk == worker_result.some /\ worker_result.val.ok

\* hash_directory has collected its entries and is between two entries.
Collected == is_dir /\ pcW = "dir_loop"

----------------------------------------------------------------------------
(* Claims about the local content hasher *)

\* C1: hash_directory processes the entries sorted by full path with the root
\* excluded, whatever order the file system lists them in: for every listing
\* of the same tree the collected entries are those the run collected, and the
\* digest is the one the run returned.
C1_DigestIndependentOfListing ==
    /\ Collected =>
         /\ \A o \in Listings(tree) : CollectEntries(p, o, unreadable) = entries
         /\ \A i, j \in 1..Len(entries) :
                i < j => PathLess(entries[i].path, entries[j].path)
         /\ \A i \in 1..Len(entries) : entries[i].path # p
         /\ Len(entries) = Cardinality(tree)
    /\ (is_dir /\ WorkerOk) =>
         \A o \in Listings(tree) :
             hash_directory(p, o, algorithm, include_names) = worker_result.val.val

\* C1 witness: a directory with several listings (a sub-directory with a child
\* and a sibling after it) has been hashed to a digest.
C1_Witness ==
    /\ is_dir /\ WorkerOk
    /\ Cardinality(tree) >= 3
    /\ \E e \in tree : Len(e.path) = 2
    /\ pcC = "returned"

\* C2: with include_names = false, hash_file returns for a file of content b
\* the digest get_buffer_hash(b) returns, for every algorithm and however the
\* reads split b.
C2_FileDigestIsBufferDigest ==
    (~is_dir /\ ~include_names) =>
        /\ WorkerOk => worker_result.val.val = get_buffer_hash(content, algorithm)
        /\ (ret.some /\ ret.val.ok) => ret.val.val = get_buffer_hash(content, algorithm)

\* C2 witness: a file was hashed without its name in at least two chunks and
\* the digest was returned.
C2_Witness ==
    /\ ~is_dir /\ ~include_names
    /\ ret.some /\ ret.val.ok
    /\ Len(SelectSeq(log, IsContent)) >= 2

\* The update events of the log, and those that feed file content.
Updates == SelectSeq(log, IsUpdate)

ContentUpdates == SelectSeq(log, IsContent)

\* C5: in hash_file, when include_names is set the base name is the first
\* thing fed and everything after it is content; without include_names only
\* content is fed; the content chunks fed so far are, in order, exactly the
\* bytes of the file before the read offset, and at end of file all of them.
\* A worker that panicked when it created its spinner has fed nothing.
C5_NameThenContentInOffsetOrder ==
    ~is_dir =>
        /\ ~NoPanic => Updates = <<>>
        /\ (include_names /\ CountOp("open") = 1 /\ NoPanic) =>
               /\ Len(Updates) >= 1
               /\ Updates[1].about = "base_name"
               /\ Updates[1].data = p[Len(p)]
        /\ \A i \in 1..Len(Updates) :
               (i > 1 \/ ~include_names) => Updates[i].about = "content"
        /\ \A i \in 1..Len(ContentUpdates) : ContentUpdates[i].data # <<>>
        /\ Len(Concat(DataOf(ContentUpdates))) <= Len(content)
        /\ Concat(DataOf(ContentUpdates))
               = SubSeq(content, 1, Len(Concat(DataOf(ContentUpdates))))
        /\ reader.some => Len(Concat(DataOf(ContentUpdates))) = reader.val.off
        /\ WorkerOk => Concat(DataOf(ContentUpdates)) = content

\* C5 witness: a file was hashed with its name in at least two chunks.
C5_Witness ==
    /\ ~is_dir /\ include_names /\ WorkerOk
    /\ Len(ContentUpdates) >= 2

\* C6: once an open, a read or strip_prefix has failed, nothing more is
\* opened or fed and finalize is not called (the only later event is the
\* sending of the result); the result is an error naming the path that
\* failed, never a digest.
C6_FailureAborts ==
    \A i \in 1..Len(log) :
        IsFailure(log[i]) =>
            /\ \A j \in 1..Len(log) : j > i => log[j].op = "send"
            /\ CountOp("finalize") = 0
            /\ reader = None
            /\ worker_result.some =>
                   /\ ~worker_result.val.ok
                   /\ worker_result.val.err.path = log[i].path
            /\ ret.some =>
                   /\ ~ret.val.ok
                   /\ ret.val.err.path = log[i].path

\* C6 witness: in a directory a read of a file failed after some entry had
\* been fed, entries were left, and the error was returned.
C6_Witness ==
    /\ is_dir
    /\ \E i \in 1..Len(log) : log[i].op = "read_err" /\ i > 2
    /\ idx < Len(entries)
    /\ pcC = "returned"

\* The caller takes no step and the worker is running.
WorkerStep ==
    /\ UNCHANGED callerVars
    /\ pcW \in {"spawned", "dir_loop", "dir_read", "dir_end", "file_read", "file_end"}

\* The statement of the handoff without the panic of the worker: at most one
\* message is ever sent; nothing is returned before the caller has received
\* the message and joined the ended worker; what is returned is the worker's
\* result.
C7_OneMessage ==
    /\ CountOp("send") <= 1
    /\ Len(chan) <= 1
    /\ pcC # "returned" => ret = None
    /\ received.some =>
           /\ CountOp("send") = 1
           /\ received.val = Ok(worker_result.val)
    /\ (pcC = "returned" /\ pcW # "unspawned") =>
           /\ pcW = "exited"
           /\ CountOp("send") = 1
           /\ chan = <<>>
           /\ ret = worker_result
    /\ pcW \in {"sent", "exited"} => CountOp("send") = 1

\* C7 as worded: every spawned worker sends exactly one terminal message, and
\* the caller returns exactly the worker's result.
C7_AlwaysOneMessage ==
    /\ []C7_OneMessage
    /\ [][hasher' # hasher => WorkerStep]_vars

\* What holds of get_hash_for_object in every state: at most one message is
\* ever sent and a worker that ended without panic sent exactly one; nothing
\* is returned before the caller has received and has joined the ended
\* worker; the worker's result is returned, and after a panic of the worker,
\* which sent nothing, the join error.
C7_OneMessageUnlessPanic ==
    /\ CountOp("send") <= 1
    /\ Len(chan) <= 1
    /\ pcC # "returned" => ret = None
    /\ pcW = "panicked" => CountOp("send") = 0 /\ worker_result = None
    /\ received.some =>
           IF NoPanic
           THEN /\ CountOp("send") = 1
                /\ received.val = Ok(worker_result.val)
           ELSE received.val =
                    ErrAt("Failed to receive hash sum from Hash-Worker-Thread.", <<>>)
    /\ (pcC = "returned" /\ pcW # "unspawned") =>
           /\ WorkerEnded
           /\ received.some
           /\ chan = <<>>
           /\ IF NoPanic
              THEN CountOp("send") = 1 /\ ret = worker_result
              ELSE ret = Some(ErrAt("Failed to join Hash-Worker-Thread.", <<>>))
    /\ pcW \in {"sent", "exited"} => CountOp("send") = 1

\* C7 (amended): a worker that does not panic sends exactly one terminal
\* message per call and a worker that panics sends none; the caller returns
\* only after receiving and joining the worker, and returns the worker's
\* result, or the join error after a panic, never a digest the worker did not
\* send; the hasher changes only in steps of the worker.
C7_SingleHandoff ==
    /\ []C7_OneMessageUnlessPanic
    /\ [][hasher' # hasher => WorkerStep]_vars

\* C7 witness: the caller has returned the digest of a directory.
C7_Witness ==
    /\ pcC = "returned" /\ pcW = "exited"
    /\ ret.some /\ ret.val.ok
    /\ is_dir /\ Len(entries) >= 2

\* The worker panicked, and the caller returned the join error.
PanicJoined ==
    /\ pcC = "returned" /\ pcW = "panicked"
    /\ ret = Some(ErrAt("Failed to join Hash-Worker-Thread.", <<>>))

----------------------------------------------------------------------------
(* C4: the order of the feed of hash_directory *)

\* The events that feed an entry: its name and its content.
IsEntryFeed(ev) == ev.op = "update" /\ ev.about \in {"entry_name", "content"}

EntryFeeds == SelectSeq(log, IsEntryFeed)

\* The index in `entries` of the entry with the given full path.
EntryIndex(path) == CHOOSE i \in 1..Len(entries) : entries[i].path = path

\* The content events fed for the given path.
ContentFedFor(path) ==
    LET Mine(ev) == IsContent(ev) /\ ev.path = path
    IN SelectSeq(log, Mine)

\* The name events fed for the given path.
NameFedFor(path) ==
    LET Mine(ev) == ev.op = "update" /\ ev.about = "entry_name" /\ ev.path = path
    IN SelectSeq(log, Mine)

\* The root's base name is fed once, before everything else.
C4_BaseNameFedFirst ==
    /\ Len(Updates) >= 1
    /\ Updates[1].about = "base_name"
    /\ \A i \in 2..Len(Updates) : Updates[i].about # "base_name"

\* Entry by entry in the order of `entries`: the path relative to the root
\* when names are included, then the content of a regular file; nothing but
\* the relative path for a directory; finalize once, after every update.
C4_EntriesFedInOrder ==
    /\ \A k, l \in 1..Len(EntryFeeds) :
           k < l =>
               /\ EntryIndex(EntryFeeds[k].path) <= EntryIndex(EntryFeeds[l].path)
               /\ EntryFeeds[k].path = EntryFeeds[l].path
                      => EntryFeeds[l].about = "content"
    /\ \A i \in 1..Len(entries) :
           /\ DataOf(NameFedFor(entries[i].path)) =
                  (IF include_names
                   THEN <<PathBytes(SubSeq(entries[i].path, Len(p) + 1,
                                           Len(entries[i].path)))>>
                   ELSE <<>>)
           /\ Concat(DataOf(ContentFedFor(entries[i].path))) = entries[i].content
           /\ entries[i].kind = "dir" => ContentFedFor(entries[i].path) = <<>>
    /\ ~include_names => \A i \in 1..Len(Updates) : Updates[i].about = "content"
    /\ CountOp("finalize") = 1
    /\ \A i \in 1..Len(log) :
           log[i].op = "update" =>
               \E j \in 1..Len(log) : j > i /\ log[j].op = "finalize"

\* C4: with include_names = true hash_directory feeds the root directory's
\* base name once, then for each entry in sorted order its path relative to
\* the root followed by its content if it is a regular file; a directory
\* contributes only its relative path; with include_names = false no name is
\* fed; finalize is called exactly once, after the whole traversal.
C4_FeedOrder ==
    (is_dir /\ WorkerOk) =>
        /\ include_names => C4_BaseNameFedFirst
        /\ C4_EntriesFedInOrder

\* The part of C4 that the code keeps: the whole order for a root whose path
\* ends in a name, and the order of the entries for every root.
C4_FeedOrderOfNamedRoot ==
    (is_dir /\ WorkerOk) =>
        /\ (include_names /\ file_name(p).some) => C4_BaseNameFedFirst
        /\ C4_EntriesFedInOrder

----------------------------------------------------------------------------
(* The rename scenario: one file of a hashed directory is renamed, its       *)
(* content kept, and the directory is hashed again (spec scenario D)         *)

\* The bytes file names are made of: 'a' and 'b'.
NameBytes == {97, 98}

\* The file names of the rename scenario: every name of up to MaxNameLen
\* bytes, the two-byte character U+00E9, and three names that are not valid
\* UTF-8: a lone continuation byte and two bytes that start no sequence.
RenameNames ==
    SeqsOf(NameBytes, 1, MaxNameLen) \cup {<<195, 169>>, <<128>>, <<254>>, <<255>>}

\* The directories of the rename scenario: one or two files, side by side.
RenameTrees ==
    {{FileEntry(<<n>>, c)} : n \in RenameNames, c \in TreeContents}
    \cup {t \in {{FileEntry(<<n1>>, c1), FileEntry(<<n2>>, c2)} :
                      n1 \in RenameNames, n2 \in RenameNames,
                      c1 \in TreeContents, c2 \in TreeContents} :
             \A e, f \in t : e.path = f.path => e = f}

InitRename ==
    /\ p = <<<<100>>>>
    /\ is_dir = TRUE
    /\ tree \in RenameTrees
    /\ unreadable = {}
    /\ content = <<>>
    /\ algorithm \in TreeAlgorithms
    /\ include_names \in BOOLEAN
    /\ InitThreads
    /\ NoRename
    /\ NoCommand
    /\ NoCalls
    /\ NoDownload

\* The tree with file e renamed to new_name, its content kept.
RenameIn(t, e, new_name) == (t \ {e}) \cup {FileEntry(<<new_name>>, e.content)}

\* Hash the directory, rename one of its files to a name not in use, and hash
\* the directory again; each run reads the listing the file system gives it.
rename_and_hash ==
    /\ renamed = None
    /\ \E e \in tree, new_name \in RenameNames :
         /\ \A f \in tree : f.path # <<new_name>>
         /\ renamed' = Some(RenameIn(tree, e, new_name))
    /\ \E o \in Listings(tree) :
         digest_a' = hash_directory(p, o, algorithm, include_names)
    /\ \E o \in Listings(renamed'.val) :
         digest_b' = hash_directory(p, o, algorithm, include_names)
    /\ UNCHANGED <<localVars, dlVars, utilVars, cmdVars>>

NextRename == rename_and_hash

SpecRename == InitRename /\ [][NextRename]_vars

\* C3: the two trees, which differ only in the name of one file, have
\* different digests when include_names = true and the same digest when
\* include_names = false.
C3_RenameChangesDigestOnlyWithNames ==
    renamed.some =>
        /\ include_names => digest_a # digest_b
        /\ ~include_names => digest_a = digest_b

\* --------------------------------------------------------------------------
\* download.rs: the download pipeline.
\*
\* A header value is a sequence of one-character strings; the body is the
\* sequence of bytes the reader of the response yields.
\* --------------------------------------------------------------------------

\* The longest body of a response.
MaxBodyLen == 5

\* The length of the read buffer ([0; 4096] in the code), scaled down.
MaxBuffer == 2

DecimalDigits == <<"0", "1", "2", "3", "4", "5", "6", "7", "8", "9">>

IsDigit(c) == \E i \in 1..10 : DecimalDigits[i] = c

DigitValue(c) == (CHOOSE i \in 1..10 : DecimalDigits[i] = c) - 1

RECURSIVE DecimalValue(_)
DecimalValue(s) ==
    IF s = <<>> THEN 0
    ELSE 10 * DecimalValue(SubSeq(s, 1, Len(s) - 1)) + DigitValue(s[Len(s)])

\* The digits without their leading zeros ("0" for zero).
RECURSIVE StripZeros(_)
StripZeros(digits) ==
    IF Len(digits) > 1 /\ digits[1] = "0" THEN StripZeros(Tail(digits)) ELSE digits

\* usize::MAX of a 64-bit target, 2^64 - 1, in decimal digits.
UsizeMaxDigits ==
    <<"1", "8", "4", "4", "6", "7", "4", "4", "0", "7",
      "3", "7", "0", "9", "5", "5", "1", "6", "1", "5">>

\* The number of the digits is above usize::MAX (IntErrorKind::PosOverflow):
\* it has more significant digits, or as many and a greater one at the first
\* place where the two differ.
PosOverflow(digits) ==
    LET d == StripZeros(digits)
    IN  \/ Len(d) > Len(UsizeMaxDigits)
        \/ /\ Len(d) = Len(UsizeMaxDigits)
           /\ \E i \in 1..Len(d) :
                 /\ \A j \in 1..(i - 1) : d[j] = UsizeMaxDigits[j]
                 /\ DigitValue(d[i]) > DigitValue(UsizeMaxDigits[i])

\* str::parse::<usize>: an optional '+', then one or more decimal digits and
\* nothing else (no blanks, no '-'), of a number up to usize::MAX.  The
\* result is the integer (wide = FALSE), or for a number of more than nine
\* digits, which the integers of the checker may not hold, its digits without
\* leading zeros (wide = TRUE).
parse_usize(s) ==
    LET digits == IF s # <<>> /\ s[1] = "+" THEN Tail(s) ELSE s
    IN  IF digits = <<>> THEN Err("ParseIntError")
        ELSE IF \E i \in 1..Len(digits) : ~IsDigit(digits[i])
        THEN Err("ParseIntError")
        ELSE IF PosOverflow(digits) THEN Err("ParseIntError")
        ELSE IF Len(StripZeros(digits)) > 9
        THEN [ok |-> TRUE, val |-> StripZeros(digits), wide |-> TRUE]
        ELSE [ok |-> TRUE, val |-> DecimalValue(digits), wide |-> FALSE]

\* total_size > 0, of a parsed usize.
IsPositive(parsed) == parsed.wide \/ parsed.val > 0

\* str::contains.
contains(s, pattern) ==
    \E i \in 1..(Len(s) - Len(pattern) + 1) :
        SubSeq(s, i, i + Len(pattern) - 1) = pattern

\* str::split(sep).last(): what follows the last separator, or the whole.
split_last(s, sep) ==
    LET seps == {i \in 1..Len(s) : s[i] = sep}
    IN  IF seps = {} THEN s
        ELSE LET k == CHOOSE i \in seps : \A j \in seps : j <= i
             IN  SubSeq(s, k + 1, Len(s))

\* enum FileSizeState.
Known(total_size) == [tag |-> "Known", size |-> total_size]
Unknown == [tag |-> "Unknown", size |-> 0]
Chunked == [tag |-> "Chunked", size |-> 0]

\* DownloadError::DownloadFailed(description), as the error of a Result.
DownloadFailed(description) == Err([kind |-> "DownloadFailed", msg |-> description])

\* DownloadError::DownloadInterrupted, as the error of a Result.
DownloadInterrupted == Err([kind |-> "DownloadInterrupted", msg |-> ""])

SizeNotDetermined ==
    DownloadFailed("The file size could not be determined from the server response")

NoSizeInformation ==
    DownloadFailed("The response from the server did not contain any information on how to handle the file size")

\* A variant of get_content_length that gives up silently on a zero or
\* unparsable value.
get_content_length_Lenient(resp) ==
    IF resp.content_length.some
    THEN LET parsed == parse_usize(resp.content_length.val)
         IN  IF parsed.ok /\ IsPositive(parsed) THEN Ok(Known(parsed.val))
             ELSE Ok(Unknown)
    ELSE Ok(Unknown)

get_content_length(resp) ==
    IF resp.content_length.some
    THEN LET parsed == parse_usize(resp.content_length.val)
         IN  IF parsed.ok
             THEN IF IsPositive(parsed) THEN Ok(Known(parsed.val))
                  ELSE SizeNotDetermined
             ELSE SizeNotDetermined
    ELSE Ok(Unknown)

\* A variant of get_content_range that takes a '*' total for a chunked body.
get_content_range_StarChunked(resp) ==
    IF resp.content_range.some
    THEN LET total_size == split_last(resp.content_range.val, "/")
         IN  IF contains(total_size, <<"*">>) THEN Ok(Chunked)
             ELSE LET parsed == parse_usize(total_size)
                  IN  IF parsed.ok
                      THEN IF IsPositive(parsed) THEN Ok(Known(parsed.val))
                           ELSE SizeNotDetermined
                      ELSE SizeNotDetermined
    ELSE Ok(Unknown)

get_content_range(resp) ==
    IF resp.content_range.some
    THEN LET total_size == split_last(resp.content_range.val, "/")
         IN  IF contains(total_size, <<"*">>) THEN Ok(Unknown)
             ELSE LET parsed == parse_usize(total_size)
                  IN  IF parsed.ok
                      THEN IF IsPositive(parsed) THEN Ok(Known(parsed.val))
                           ELSE SizeNotDetermined
                      ELSE SizeNotDetermined
    ELSE Ok(Unknown)

get_transfer_encoding(resp) ==
    IF resp.transfer_encoding.some
    THEN IF contains(resp.transfer_encoding.val, <<"c", "h", "u", "n", "k", "e", "d">>)
         THEN Ok(Chunked)
         ELSE Ok(Unknown)
    ELSE Ok(Unknown)

\* A variant of get_file_size_state that asks Content-Range before
\* Content-Length.
get_file_size_state_RangeFirst(resp) ==
    LET cr == get_content_range(resp)
    IN  IF ~cr.ok \/ cr.val # Unknown
        THEN [result |-> cr, calls |-> <<"Content-Range">>]
        ELSE LET cl == get_content_length(resp)
             IN  IF ~cl.ok \/ cl.val # Unknown
                 THEN [result |-> cl, calls |-> <<"Content-Range", "Content-Length">>]
                 ELSE [result |-> get_transfer_encoding(resp),
                       calls |-> <<"Content-Range", "Content-Length", "Transfer-Encoding">>]

\* get_file_size_state: its result, and the strategies it called, in order.
get_file_size_state(resp) ==
    LET cl == get_content_length(resp)
    IN  IF ~cl.ok THEN [result |-> cl, calls |-> <<"Content-Length">>]
        ELSE IF cl.val = Unknown
        THEN LET cr == get_content_range(resp)
             IN  IF ~cr.ok
                 THEN [result |-> cr, calls |-> <<"Content-Length", "Content-Range">>]
                 ELSE IF cr.val = Unknown
                 THEN [result |-> get_transfer_encoding(resp),
                       calls |-> <<"Content-Length", "Content-Range", "Transfer-Encoding">>]
                 ELSE [result |-> cr, calls |-> <<"Content-Length", "Content-Range">>]
        ELSE [result |-> cl, calls |-> <<"Content-Length">>]

\* --------------------------------------------------------------------------
\* utils.rs: the name of the downloaded file.  A name is a sequence of
\* one-character strings.
\* --------------------------------------------------------------------------

\* enum OS, as utils.rs names its variants.
OS == {"Linux", "MacOs", "Windows"}

\* The characters a file name must not hold on Linux and macOS: : / \
UNIX_INVALID_FILE_NAME_CHARS == {":", "/", "\\"}

\* The characters a file name must not hold on Windows: < > : dquote / \ | ? *
WINDOWS_INVALID_FILE_NAME_CHARS == {"<", ">", ":", "dquote", "/", "\\", "|", "?", "*"}

\* A variant of the replacement that leaves out the illegal characters.
replace_invalid_chars_with_underscore_Dropping(name, os) ==
    LET invalid_chars == IF os \in {"Linux", "MacOs"}
                         THEN UNIX_INVALID_FILE_NAME_CHARS
                         ELSE WINDOWS_INVALID_FILE_NAME_CHARS
        Legal(c) == c \notin invalid_chars
    IN  SelectSeq(name, Legal)

replace_invalid_chars_with_underscore(name, os) ==
    LET invalid_chars == IF os \in {"Linux", "MacOs"}
                         THEN UNIX_INVALID_FILE_NAME_CHARS
                         ELSE WINDOWS_INVALID_FILE_NAME_CHARS
    IN  [i \in 1..Len(name) |-> IF name[i] \in invalid_chars THEN "_" ELSE name[i]]

\* The printable ASCII characters, from ' ' (32) to '~' (126); the double
\* quote and the backtick, which no TLA+ string can hold, are written out.
AsciiChars ==
    <<
      " ", "!", "dquote", "#", "$", "%", "&", "'", "(", ")", "*", "+",
      ",", "-", ".", "/", "0", "1", "2", "3", "4", "5", "6", "7",
      "8", "9", ":", ";", "<", "=", ">", "?", "@", "A", "B", "C",
      "D", "E", "F", "G", "H", "I", "J", "K", "L", "M", "N", "O",
      "P", "Q", "R", "S", "T", "U", "V", "W", "X", "Y", "Z", "[",
      "\\", "]", "^", "_", "backtick", "a", "b", "c", "d", "e", "f", "g",
      "h", "i", "j", "k", "l", "m", "n", "o", "p", "q", "r", "s",
      "t", "u", "v", "w", "x", "y", "z", "{", "|", "}", "~"
    >>

HexDigitChars ==
    <<"0", "1", "2", "3", "4", "5", "6", "7", "8", "9",
      "a", "b", "c", "d", "e", "f", "A", "B", "C", "D", "E", "F">>

IsHexDigit(c) == \E i \in 1..Len(HexDigitChars) : HexDigitChars[i] = c

\* The value of a hex digit of either case.
HexValue(c) ==
    LET i == CHOOSE k \in 1..Len(HexDigitChars) : HexDigitChars[k] = c
    IN  IF i <= 16 THEN i - 1 ELSE i - 7

\* An escape %XY starts at position i of s.
IsEscape(s, i) ==
    /\ s[i] = "%"
    /\ i + 2 <= Len(s)
    /\ IsHexDigit(s[i + 1])
    /\ IsHexDigit(s[i + 2])

RECURSIVE percent_decode(_, _)
\* percent_decode_str: s from position i on, each escape %XY replaced by the
\* byte it names, every other character kept.
percent_decode(s, i) ==
    IF i > Len(s) THEN <<>>
    ELSE IF IsEscape(s, i)
    THEN <<[byte |-> 16 * HexValue(s[i + 1]) + HexValue(s[i + 2])]>>
         \o percent_decode(s, i + 3)
    ELSE <<[char |-> s[i]]>> \o percent_decode(s, i + 1)

RECURSIVE UpperHex(_)
\* The uppercase hexadecimal digits of a number, without leading zeros.
UpperHex(n) ==
    LET digit == HexDigitChars[IF n % 16 < 10 THEN (n % 16) + 1 ELSE (n % 16) + 7]
    IN IF n < 16 THEN digit ELSE UpperHex(n \div 16) \o digit

\* The character with a code point: itself when it is printable ASCII, the
\* escapes of TLA+ for tab, line feed and carriage return, and otherwise the
\* token "U+" followed by the code point in hexadecimal, "U+E9" for U+00E9.
CharOf(cp) ==
    IF cp >= 32 /\ cp <= 126 THEN AsciiChars[cp - 31]
    ELSE IF cp = 9 THEN "\t"
    ELSE IF cp = 10 THEN "\n"
    ELSE IF cp = 13 THEN "\r"
    ELSE "U+" \o UpperHex(cp)

\* The code point of a well-formed UTF-8 sequence.
CodePoint(bytes) ==
    CASE Len(bytes) = 1 -> bytes[1]
      [] Len(bytes) = 2 -> (bytes[1] - 192) * 64 + (bytes[2] - 128)
      [] Len(bytes) = 3 -> (bytes[1] - 224) * 4096 + (bytes[2] - 128) * 64
                           + (bytes[3] - 128)
      [] Len(bytes) = 4 -> (bytes[1] - 240) * 262144 + (bytes[2] - 128) * 4096
                           + (bytes[3] - 128) * 64 + (bytes[4] - 128)

RECURSIVE HexNumber(_)
\* The number a string of hexadecimal digits spells.
HexNumber(digits) ==
    IF Len(digits) = 0 THEN 0
    ELSE 16 * HexNumber(SubSeq(digits, 1, Len(digits) - 1))
         + HexValue(SubSeq(digits, Len(digits), Len(digits)))

\* The code point of a character, the inverse of CharOf.
CodePointOf(c) ==
    IF \E i \in 1..Len(AsciiChars) : AsciiChars[i] = c
    THEN 31 + (CHOOSE i \in 1..Len(AsciiChars) : AsciiChars[i] = c)
    ELSE IF c = "\t" THEN 9
    ELSE IF c = "\n" THEN 10
    ELSE IF c = "\r" THEN 13
    ELSE HexNumber(SubSeq(c, 3, Len(c)))

\* char::encode_utf8: the bytes of a code point.
encode_utf8(cp) ==
    IF cp < 128 THEN <<cp>>
    ELSE IF cp < 2048 THEN <<192 + (cp \div 64), 128 + (cp % 64)>>
    ELSE IF cp < 65536
    THEN <<224 + (cp \div 4096), 128 + ((cp \div 64) % 64), 128 + (cp % 64)>>
    ELSE <<240 + (cp \div 262144), 128 + ((cp \div 4096) % 64),
           128 + ((cp \div 64) % 64), 128 + (cp % 64)>>

RECURSIVE as_bytes(_)
\* str::as_bytes: the UTF-8 bytes of a string.
as_bytes(s) ==
    IF s = <<>> THEN <<>>
    ELSE encode_utf8(CodePointOf(Head(s))) \o as_bytes(Tail(s))

RECURSIVE chars_of(_)
\* The characters of a well-formed UTF-8 byte string.
chars_of(bytes) ==
    IF bytes = <<>> THEN <<>>
    ELSE LET c == Utf8Chunk(bytes)
         IN <<CharOf(CodePoint(SubSeq(bytes, 1, c.len)))>>
            \o chars_of(SubSeq(bytes, c.len + 1, Len(bytes)))

RECURSIVE EscapedRun(_)
\* The bytes at the head of a decoded string that escapes have named.
EscapedRun(decoded) ==
    IF decoded = <<>> \/ "char" \in DOMAIN Head(decoded) THEN <<>>
    ELSE <<Head(decoded).byte>> \o EscapedRun(Tail(decoded))

RECURSIVE decode_utf8(_)
\* PercentDecode::decode_utf8: the decoded bytes as a string, or an error when
\* they are no UTF-8.  A character of the input is a complete sequence of its
\* own, so the bytes are UTF-8 exactly when every run of escaped bytes is.
decode_utf8(decoded) ==
    IF decoded = <<>> THEN Ok(<<>>)
    ELSE IF "char" \in DOMAIN Head(decoded)
    THEN LET rest == decode_utf8(Tail(decoded))
         IN IF rest.ok THEN Ok(<<Head(decoded).char>> \o rest.val) ELSE rest
    ELSE LET run == EscapedRun(decoded)
             rest == decode_utf8(SubSeq(decoded, Len(run) + 1, Len(decoded)))
         IN IF from_utf8(run) /\ rest.ok
            THEN Ok(chars_of(run) \o rest.val)
            ELSE Err("Utf8Error")

\* decode_percent_encoded_to_utf_8: the decoded string, or the input when
\* the decoded bytes are no UTF-8.
decode_percent_encoded_to_utf_8(input) ==
    LET decoded == decode_utf8(percent_decode(input, 1))
    IN  IF decoded.ok THEN decoded.val ELSE input

\* A variant of extract_file_name that takes the name of the URL first.
extract_file_name_UrlFirst(url, content_disposition, os) ==
    LET found == IF url.some THEN url ELSE content_disposition
    IN  IF found.some
        THEN Some(replace_invalid_chars_with_underscore(
                      decode_percent_encoded_to_utf_8(found.val), os))
        ELSE None

\* extract_file_name, given what extract_file_name_from_url and
\* extract_filename_from_content_disposition find.
extract_file_name(url, content_disposition, os) ==
    LET found == IF content_disposition.some THEN content_disposition ELSE url
    IN  IF found.some
        THEN Some(replace_invalid_chars_with_underscore(
                      decode_percent_encoded_to_utf_8(found.val), os))
        ELSE None

\* The names enter_and_verify_file_name returns: what the user entered, once
\* it is valid for the OS.
EnteredNames(os) == {<<"e">>}

\* 2^64, the least number a usize of 64 bits cannot hold.
UsizeOverflowDigits ==
    <<"1", "8", "4", "4", "6", "7", "4", "4", "0", "7",
      "3", "7", "0", "9", "5", "5", "1", "6", "1", "6">>

\* The responses of the server.
ContentLengthHeaders ==
    {None, Some(<<"0">>), Some(<<"2">>), Some(<<"+", "1">>), Some(<<"x">>), Some(<<>>),
     Some(UsizeOverflowDigits)}

ContentRangeHeaders ==
    {None,
     Some(<<"0", "-", "1", "/", "2">>),
     Some(<<"0", "-", "1", "/", "*">>),
     Some(<<"0", "-", "1", "/", "0">>),
     Some(<<"0", "-", "1", "/", "x">>),
     Some(<<"0", "-", "1", "/">> \o UsizeOverflowDigits),
     Some(<<"1">>)}

TransferEncodingHeaders ==
    {None,
     Some(<<"c", "h", "u", "n", "k", "e", "d">>),
     Some(<<"g", "z", "i", "p">>),
     Some(<<"g", "z", "i", "p", ",", " ", "c", "h", "u", "n", "k", "e", "d">>)}

\* The bodies: "", "x", "xy", "xyz", ..., every byte of a body different, so
\* that a byte lost, repeated or out of place shows.
Bodies == {[i \in 1..n |-> 119 + i] : n \in 0..MaxBodyLen}

Responses ==
    [content_length : ContentLengthHeaders,
     content_range : ContentRangeHeaders,
     transfer_encoding : TransferEncodingHeaders,
     body : Bodies]

InitDownload ==
    /\ p = <<>>
    /\ is_dir = FALSE
    /\ tree = {}
    /\ unreadable = {}
    /\ content = <<>>
    /\ algorithm = "SHA2_256"
    /\ include_names = FALSE
    /\ InitThreads
    /\ NoRename
    /\ NoCommand
    /\ NoCalls
    /\ response \in Responses
    /\ default_file_name \in {None, Some(<<"r">>)}
    /\ content_disposition_name = None
    /\ url_name \in {None, Some(<<"u", ":", "%", "2", "F">>)}
    /\ os_type = "Linux"
    /\ DownloadAt("call")

\* output_target.join(filename)
filepath(name) == <<"output_target", name>>

\* http_agent.get(url).call(): the response, or a status or transport error.
execute_download_call ==
    /\ dl_pc = "call"
    /\ \/ /\ dl_pc' = "size"
          /\ UNCHANGED dl_ret
       \/ /\ \E description \in {"HTTP-Status", "due to HTTP transport error"} :
                dl_ret' = Some(DownloadFailed(description))
          /\ dl_pc' = "done"
    /\ UNCHANGED <<dlInputVars, file_size_state, consulted, filename, dest, body_off,
                   body_reads, downloaded_bytes, pb_position, download_result>>
    /\ UNCHANGED <<writer, interrupted, interrupt_reads>>
    /\ UNCHANGED <<localVars, renameVars, utilVars, cmdVars>>

\* A variant of the test for Unknown that never matches.
IsUnknown_Never(state) == FALSE

\* if let FileSizeState::Unknown = file_size_state
IsUnknown(state) == state = Unknown

\* get_file_size_state(&response)? and the refusal of an unknown size.
execute_download_size ==
    /\ dl_pc = "size"
    /\ LET detection == get_file_size_state(response)
       IN  /\ consulted' = detection.calls
           /\ IF ~detection.result.ok
              THEN /\ dl_ret' = Some(detection.result)
                   /\ dl_pc' = "done"
                   /\ UNCHANGED file_size_state
              ELSE /\ file_size_state' = Some(detection.result.val)
                   /\ IF IsUnknown(detection.result.val)
                      THEN /\ dl_ret' = Some(NoSizeInformation)
                           /\ dl_pc' = "done"
                      ELSE /\ dl_pc' = "name"
                           /\ UNCHANGED dl_ret
    /\ UNCHANGED <<dlInputVars, filename, dest, body_off, body_reads,
                   downloaded_bytes, pb_position, download_result>>
    /\ UNCHANGED <<writer, interrupted, interrupt_reads>>
    /\ UNCHANGED <<localVars, renameVars, utilVars, cmdVars>>

\* The file name: --rename, else the name extracted from the response, else
\* the name the user enters.  enter_and_verify_file_name returns the name
\* entered, fails (the `?` of download.rs:144 returns its error), ends the
\* process with exit(1) when stdin cannot be read (filename_handling.rs:
\* 133-140), or prompts for ever when stdin is at its end.
execute_download_filename ==
    /\ dl_pc = "name"
    /\ LET extract_result ==
               IF default_file_name.some THEN default_file_name
               ELSE extract_file_name(url_name, content_disposition_name, os_type)
       IN  IF extract_result.some
           THEN /\ filename' = extract_result.val
                /\ dl_pc' = "dispatch"
                /\ UNCHANGED dl_ret
           ELSE \/ /\ filename' \in EnteredNames(os_type)
                   /\ dl_pc' = "dispatch"
                   /\ UNCHANGED dl_ret
                \/ /\ dl_ret' = Some(Err([kind |-> "io", msg |-> "enter_and_verify_file_name"]))
                   /\ dl_pc' = "done"
                   /\ UNCHANGED filename
                \/ /\ dl_pc' \in {"exit(1)", "prompt"}
                   /\ UNCHANGED <<filename, dl_ret>>
    /\ UNCHANGED <<dlInputVars, file_size_state, consulted, dest, body_off, body_reads,
                   downloaded_bytes, pb_position, download_result>>
    /\ UNCHANGED <<writer, interrupted, interrupt_reads>>
    /\ UNCHANGED <<localVars, renameVars, utilVars, cmdVars>>

\* match file_size_state, and File::create of the function it calls.
execute_download_dispatch ==
    /\ dl_pc = "dispatch"
    /\ IF file_size_state.val.tag \in {"Known", "Chunked"}
       THEN \/ /\ dest' = Some(<<>>)
               /\ dl_pc' = IF file_size_state.val.tag = "Known"
                           THEN "known_loop" ELSE "streamed_loop"
               /\ UNCHANGED dl_ret
            \/ /\ dl_ret' = Some(Err([kind |-> "io", msg |-> "File::create"]))
               /\ dl_pc' = "done"
               /\ UNCHANGED dest
       ELSE /\ dl_ret' = Some(Ok(<<>>))
            /\ dl_pc' = "done"
            /\ UNCHANGED dest
    /\ UNCHANGED <<dlInputVars, file_size_state, consulted, filename, body_off,
                   body_reads, downloaded_bytes, pb_position, download_result>>
    /\ UNCHANGED <<writer, interrupted, interrupt_reads>>
    /\ UNCHANGED <<localVars, renameVars, utilVars, cmdVars>>

\* What body_reader.read may return: 0 at the end of the body, else a count
\* up to the length of the buffer.
BodyReadCounts ==
    LET remaining == Len(response.body) - body_off
    IN  IF remaining = 0 THEN {0} ELSE 1..Min(MaxBuffer, remaining)

\* A variant of the progress value that shows the count whatever the total.
pb_value_Uncapped(pc_loop, downloaded) == downloaded

\* The value the progress display gets for the bytes downloaded: the bar of a
\* known size never passes the total, the spinner shows the count.
pb_value(pc_loop, downloaded) ==
    IF pc_loop = "known_loop"
    THEN Min(downloaded, file_size_state.val.size)
    ELSE downloaded

\* The capacity of the BufWriter (8 KiB by default: twice the read buffer).
WriterCapacity == 2 * MaxBuffer

\* BufWriter::write_all(data) with pending bytes held and file on disk, when
\* the file takes every byte given to it: data is held when it fits in the
\* spare capacity; else the held bytes are first written to the file when
\* data exceeds the spare capacity, and data is then held, or written
\* straight to the file when it is as long as the capacity.
BufWriter_write_all(pending, file, data) ==
    LET spare == WriterCapacity - Len(pending)
    IN  IF Len(data) < spare
        THEN [pending |-> pending \o data, file |-> file]
        ELSE LET flushes == Len(data) > spare
                 held == IF flushes THEN <<>> ELSE pending
                 disk == IF flushes THEN file \o pending ELSE file
             IN  IF Len(data) >= WriterCapacity
                 THEN [pending |-> held, file |-> disk \o data]
                 ELSE [pending |-> held \o data, file |-> disk]

\* write_all(data) has to write held bytes to the file, and so can fail (a
\* chunk is never as long as the capacity, so data itself is always held).
WritesThrough(pending, data) ==
    Len(data) > WriterCapacity - Len(pending) /\ pending # <<>>

\* A variant of the byte count that keeps only the last read.
accumulate_LastRead(downloaded, bytes_read) == bytes_read

\* downloaded_bytes += bytes_read
accumulate(downloaded, bytes_read) == downloaded + bytes_read

\* One pass of the loop of make_known_size_download or make_streamed_download.
download_loop(pc_loop, pc_done) ==
    /\ dl_pc = pc_loop
    /\ body_reads' = body_reads + 1
    /\ \/ \E bytes_read \in BodyReadCounts :
            LET data == SubSeq(response.body, body_off + 1, body_off + bytes_read)
            IN  /\ body_off' = body_off + bytes_read
                /\ \/ /\ LET w == BufWriter_write_all(writer, dest.val, data)
                         IN  /\ writer' = w.pending
                             /\ dest' = Some(w.file)
                      /\ downloaded_bytes' = accumulate(downloaded_bytes, bytes_read)
                      /\ pb_position' = pb_value(pc_loop, accumulate(downloaded_bytes, bytes_read))
                      /\ IF bytes_read = 0
                         THEN /\ download_result' = Some(Ok(<<>>))
                              /\ dl_pc' = pc_done
                         ELSE UNCHANGED <<download_result, dl_pc>>
                   \/ /\ WritesThrough(writer, data)
                      /\ \E written \in 0..(Len(writer) - 1) :
                            /\ dest' = Some(dest.val \o SubSeq(writer, 1, written))
                            /\ writer' = SubSeq(writer, written + 1, Len(writer))
                      /\ download_result' =
                            Some(DownloadFailed("Unable to write data from server response into file"))
                      /\ dl_pc' = pc_done
                      /\ UNCHANGED <<downloaded_bytes, pb_position>>
       \/ /\ download_result' =
                Some(DownloadFailed("Failed to read data from server response"))
          /\ dl_pc' = pc_done
          /\ UNCHANGED <<dest, writer, body_off, downloaded_bytes, pb_position>>
    /\ UNCHANGED <<dlInputVars, file_size_state, consulted, filename, dl_ret>>
    /\ UNCHANGED <<interrupted, interrupt_reads>>
    /\ UNCHANGED <<localVars, renameVars, utilVars, cmdVars>>

make_known_size_download_loop == download_loop("known_loop", "known_done")

make_streamed_download_loop == download_loop("streamed_loop", "streamed_done")

\* Drop of the BufWriter: flush_buf, its result ignored.
drop_writer ==
    \E written \in 0..Len(writer) :
        /\ dest' = Some(dest.val \o SubSeq(writer, 1, written))
        /\ writer' = <<>>

\* A variant of the return value that gives the path whatever the result.
download_return_AlwaysPath(loop_result, path) == Ok(path)

\* What the download function returns for the result of its loop:
\* handle_download_result(start, download_result)?; Ok(file_props.filepath)
download_return(loop_result, path) ==
    IF loop_result.ok THEN Ok(path) ELSE loop_result

\* handle_download_result(start, download_result)?; Ok(file_props.filepath)
\* The function then returns and the BufWriter is dropped: its held bytes are
\* written to the file, and an error of that write is ignored.  On
\* process::exit(1) nothing is dropped.
handle_download_result ==
    /\ dl_pc \in {"known_done", "streamed_done"}
    /\ IF download_result.val.ok
       THEN /\ dl_ret' = Some(download_return(download_result.val, filepath(filename)))
            /\ dl_pc' = "done"
            /\ drop_writer
       ELSE IF download_result.val.err.kind = "DownloadInterrupted"
       THEN /\ dl_pc' = "exit(1)"
            /\ UNCHANGED <<dl_ret, dest, writer>>
       ELSE /\ dl_ret' = Some(download_return(download_result.val, filepath(filename)))
            /\ dl_pc' = "done"
            /\ drop_writer
    /\ UNCHANGED <<dlInputVars, file_size_state, consulted, filename, body_off,
                   body_reads, downloaded_bytes, pb_position, download_result>>
    /\ UNCHANGED <<interrupted, interrupt_reads>>
    /\ UNCHANGED <<localVars, renameVars, utilVars, cmdVars>>

\* The user presses Ctrl-C while execute_download runs: the handler that
\* app::set_ctrl_c_handler installed is the process's, whatever the download
\* is doing.
ctrl_c ==
    /\ dl_pc \notin {"idle", "done", "exit(1)"}
    /\ ~interrupted
    /\ interrupted' = TRUE
    /\ interrupt_reads' = body_reads
    /\ UNCHANGED <<dlInputVars, dl_pc, file_size_state, consulted, filename, dest,
                   writer, body_off, body_reads, downloaded_bytes, pb_position,
                   download_result, dl_ret>>
    /\ UNCHANGED <<localVars, renameVars, utilVars, cmdVars>>

\* The Ctrl-C handler, on its own thread: the message, then process::exit(1).
exit_cmd ==
    /\ interrupted
    /\ dl_pc \notin {"done", "exit(1)"}
    /\ dl_pc' = "exit(1)"
    /\ UNCHANGED <<dlInputVars, file_size_state, consulted, filename, dest,
                   writer, body_off, body_reads, downloaded_bytes, pb_position,
                   download_result, dl_ret, interrupted, interrupt_reads>>
    /\ UNCHANGED <<localVars, renameVars, utilVars, cmdVars>>

NextDownload ==
    \/ execute_download_call
    \/ execute_download_size
    \/ execute_download_filename
    \/ execute_download_dispatch
    \/ make_known_size_download_loop
    \/ make_streamed_download_loop
    \/ handle_download_result
    \/ ctrl_c
    \/ exit_cmd

SpecDownload == InitDownload /\ [][NextDownload]_vars

\* The Content-Length header is present and is zero or not a number.
ZeroOrUnparsable(header) ==
    /\ header.some
    /\ LET parsed == parse_usize(header.val)
       IN  ~parsed.ok \/ ~IsPositive(parsed)

\* The header gives no size: Content-Length is absent, Content-Range is
\* absent or gives '*' as the total, Transfer-Encoding is absent or has no
\* token 'chunked'.
YieldsNothing(strategy) ==
    CASE strategy = "Content-Length" -> ~response.content_length.some
      [] strategy = "Content-Range" ->
            \/ ~response.content_range.some
            \/ contains(split_last(response.content_range.val, "/"), <<"*">>)
      [] strategy = "Transfer-Encoding" ->
            \/ ~response.transfer_encoding.some
            \/ ~contains(response.transfer_encoding.val,
                         <<"c", "h", "u", "n", "k", "e", "d">>)

Strategies == <<"Content-Length", "Content-Range", "Transfer-Encoding">>

SizeDetected == consulted # <<>>

Failed == dl_pc = "done" /\ dl_ret.some /\ ~dl_ret.val.ok

NothingDownloaded ==
    /\ dest = None
    /\ body_reads = 0
    /\ body_off = 0
    /\ downloaded_bytes = 0
    /\ dl_pc \in {"call", "size", "done", "exit(1)"}

\* C8: when the response carries a Content-Length that is zero or not a
\* number, or when none of the three strategies yields a size, execute_download
\* returns an error, and in no state of such a run, one that Ctrl-C ends
\* included, is the destination file created or a byte of the body read or
\* written.
C8_NoSizeNoDownload ==
    (\/ ZeroOrUnparsable(response.content_length)
     \/ \A i \in 1..3 : YieldsNothing(Strategies[i]))
    => /\ NothingDownloaded
       /\ dl_pc = "done" => Failed

C8_Witness ==
    /\ \A i \in 1..3 : YieldsNothing(Strategies[i])
    /\ response.body # <<>>
    /\ file_size_state = Some(Unknown)
    /\ Failed

\* C9: size detection calls the strategies in the order Content-Length,
\* Content-Range, Transfer-Encoding and stops at the first that yields a
\* size: a positive Content-Length gives Known(that value) whatever the other
\* headers say, Content-Range is called only when Content-Length yielded
\* nothing, Transfer-Encoding only when both yielded nothing (the token
\* 'chunked' then gives Chunked), and Unknown results only when all three
\* yield nothing.
C9_StrategyOrder ==
    SizeDetected =>
        LET length == parse_usize(response.content_length.val)
        IN  /\ consulted = SubSeq(Strategies, 1, Len(consulted))
            /\ (response.content_length.some /\ length.ok /\ IsPositive(length))
                 => /\ file_size_state = Some(Known(length.val))
                    /\ consulted = <<"Content-Length">>
            /\ Len(consulted) >= 2 => YieldsNothing("Content-Length")
            /\ Len(consulted) = 3 => YieldsNothing("Content-Range")
            /\ (Len(consulted) = 3 /\ ~YieldsNothing("Transfer-Encoding"))
                 => file_size_state = Some(Chunked)
            /\ file_size_state = Some(Unknown)
                 <=> \A i \in 1..3 : YieldsNothing(Strategies[i])
            /\ (file_size_state.some /\ file_size_state.val # Unknown)
                 => ~YieldsNothing(consulted[Len(consulted)])

C9_Witness ==
    /\ consulted = Strategies
    /\ response.content_range.some
    /\ file_size_state = Some(Chunked)
    /\ dl_pc = "name"

\* C10 as claimed: a Content-Length that is zero or cannot be parsed does not
\* end size detection; Content-Range and Transfer-Encoding are tried and an
\* error results only if every strategy fails, so that Content-Length: 0 with
\* Transfer-Encoding: chunked yields Chunked.
C10_ZeroContentLengthFallsThrough ==
    (SizeDetected /\ ZeroOrUnparsable(response.content_length))
    => /\ Len(consulted) >= 2
       /\ (YieldsNothing("Content-Range") /\ ~YieldsNothing("Transfer-Encoding"))
            => file_size_state = Some(Chunked)

\* C10 as amended: a Content-Length that is zero or cannot be parsed ends size
\* detection at once with the DownloadFailed error; Content-Range and
\* Transfer-Encoding are not called, whatever they hold.
C10_ZeroContentLengthFails ==
    (SizeDetected /\ ZeroOrUnparsable(response.content_length))
    => /\ consulted = <<"Content-Length">>
       /\ file_size_state = None
       /\ dl_pc = "done"
       /\ dl_ret = Some(SizeNotDetermined)

C10_Witness ==
    /\ response.content_length = Some(<<"0">>)
    /\ ~YieldsNothing("Transfer-Encoding")
    /\ consulted = <<"Content-Length">>
    /\ Failed

\* The total-size segment of the Content-Range header: what follows the
\* final '/'.
TotalSizeSegment == split_last(response.content_range.val, "/")

\* get_content_range was called and the header is present.
ContentRangeRead == Len(consulted) >= 2 /\ response.content_range.some

\* C11 as claimed: a Content-Range header whose total-size segment is '*'
\* yields the size state Chunked; a positive integer segment yields
\* Known(total).
C11_StarTotalIsChunked ==
    ContentRangeRead =>
        /\ TotalSizeSegment = <<"*">>
             => /\ file_size_state = Some(Chunked)
                /\ consulted = <<"Content-Length", "Content-Range">>
        /\ (parse_usize(TotalSizeSegment).ok /\ IsPositive(parse_usize(TotalSizeSegment)))
             => file_size_state = Some(Known(parse_usize(TotalSizeSegment).val))

\* C11 as amended: a Content-Range header whose total-size segment is '*'
\* yields Unknown from that strategy: Transfer-Encoding is asked next and
\* decides (Chunked with the token 'chunked', else Unknown and the download
\* is refused); a positive integer segment yields Known(total).
C11_StarTotalIsUnknown ==
    ContentRangeRead =>
        /\ TotalSizeSegment = <<"*">>
             => /\ consulted = Strategies
                /\ file_size_state =
                     Some(IF YieldsNothing("Transfer-Encoding") THEN Unknown ELSE Chunked)
                /\ YieldsNothing("Transfer-Encoding") => Failed /\ dest = None
        /\ (parse_usize(TotalSizeSegment).ok /\ IsPositive(parse_usize(TotalSizeSegment)))
             => /\ file_size_state = Some(Known(parse_usize(TotalSizeSegment).val))
                /\ consulted = <<"Content-Length", "Content-Range">>

C11_Witness ==
    /\ ContentRangeRead
    /\ TotalSizeSegment = <<"*">>
    /\ YieldsNothing("Transfer-Encoding")
    /\ file_size_state = Some(Unknown)
    /\ Failed

\* The streaming loop is running, or has ended.
Streaming == dl_pc \in {"known_loop", "streamed_loop"}

StreamSucceeded == download_result.some /\ download_result.val.ok

\* In the loop, and after its success, the bytes handed to the writer are
\* the bytes read, in the order read, and downloaded_bytes counts them.
C12_WrittenAsRead ==
    /\ Streaming
         => /\ dest.val \o writer = SubSeq(response.body, 1, body_off)
            /\ downloaded_bytes = body_off
    /\ (StreamSucceeded /\ dl_pc \in {"known_done", "streamed_done"})
         => /\ dest.val \o writer = response.body
            /\ downloaded_bytes = Len(response.body)
            /\ body_off = Len(response.body)

\* A read that returns no byte ends the loop with success, and nothing else
\* does.
C12_ZeroReadEnds ==
    Streaming =>
        /\ (body_reads' = body_reads + 1 /\ body_off' = body_off
              /\ (download_result'.some => download_result'.val.ok))
             => /\ download_result' = Some(Ok(<<>>))
                /\ dl_pc' \in {"known_done", "streamed_done"}
        /\ (download_result'.some /\ download_result'.val.ok)
             => body_off' = body_off /\ body_off = Len(response.body)

\* C12: in both streaming loops each chunk is written in the order it was
\* read, a read of zero bytes ends the loop with success, and on success
\* downloaded_bytes is the sum of the read sizes and the bytes handed to the
\* writer are exactly the body's bytes in order.
C12_ChunksWrittenInOrder == []C12_WrittenAsRead /\ [][C12_ZeroReadEnds]_vars

C12_Witness ==
    /\ StreamSucceeded
    /\ Len(response.body) = MaxBodyLen
    /\ body_reads = MaxBodyLen + 1
    /\ dl_pc \in {"known_done", "streamed_done"}
    /\ dest.val \o writer = response.body

\* The streaming loop ended with an error.
StreamFailed == download_result.some /\ ~download_result.val.ok

IsPrefix(a, b) == Len(a) <= Len(b) /\ SubSeq(b, 1, Len(a)) = a

\* After the error the loop is over, the error is DownloadFailed, the file
\* exists, and what the function returns is that error.
C13_FailedState ==
    StreamFailed
    => /\ dl_pc \in {"known_done", "streamed_done", "done", "exit(1)"}
       /\ download_result.val.err.kind = "DownloadFailed"
       /\ dest.some
       /\ dl_pc = "done" => dl_ret = Some(download_result.val)

\* After the error nothing more is read, no chunk more is handed to the
\* writer, and the file is neither removed nor cut.
C13_FailedStep ==
    StreamFailed
    => /\ UNCHANGED <<body_reads, body_off, downloaded_bytes, download_result>>
       /\ dest'.some
       /\ IsPrefix(dest.val, dest'.val)
       /\ IsPrefix(dest'.val \o writer', dest.val \o writer)

\* C13: a read error or a write error during streaming ends the loop at that
\* iteration with a DownloadFailed error: nothing more is read or written by
\* the loop, the function returns the error and not the file path, and the
\* partly written destination file stays on disk.
C13_ErrorEndsStreaming == []C13_FailedState /\ [][C13_FailedStep]_vars

C13_Witness ==
    /\ StreamFailed
    /\ download_result.val.err.msg = "Unable to write data from server response into file"
    /\ dl_pc = "done"
    /\ dest.val # <<>>
    /\ dest.val # response.body

\* C14: the streaming loop looks at the cancellation flag in every pass: once
\* the user has interrupted, at most one more chunk is read before the
\* download ends, and it ends with the outcome DownloadInterrupted (the
\* interrupted message and the end of the process), never with a failure and
\* never with success after the whole transfer.
C14_InterruptEndsStreaming ==
    interrupted
    => /\ body_reads <= interrupt_reads + 1
       /\ body_reads > interrupt_reads
             => /\ download_result.some => download_result.val = DownloadInterrupted
                /\ dl_pc # "done"

\* C15: on the interrupted exit the destination file is flushed and closed
\* as on every other exit: when the process ends, every byte the buffered
\* writer accepted before the interruption is in the file.
C15_InterruptedExitFlushes ==
    (dl_pc = "exit(1)" /\ dest.some) => writer = <<>>

\* --------------------------------------------------------------------------
\* The download with every source of the file name, for two sized responses
\* and one that gives no size.
\* --------------------------------------------------------------------------

NameResponses ==
    {r \in Responses :
        /\ r.content_length \in {None, Some(<<"2">>)}
        /\ r.content_range = None
        /\ r.transfer_encoding \in {None, Some(<<"c", "h", "u", "n", "k", "e", "d">>)}
        /\ Len(r.body) = MaxBodyLen}

InitName ==
    /\ p = <<>>
    /\ is_dir = FALSE
    /\ tree = {}
    /\ unreadable = {}
    /\ content = <<>>
    /\ algorithm = "SHA2_256"
    /\ include_names = FALSE
    /\ InitThreads
    /\ NoRename
    /\ NoCommand
    /\ NoCalls
    /\ response \in NameResponses
    /\ default_file_name \in {None, Some(<<"r">>)}
    /\ content_disposition_name \in
          {None, Some(<<"c", "?">>), Some(<<"c", "%", "2", "0", "d">>),
           Some(<<"%", "C", "3", "%", "A", "9">>), Some(<<"a", "%", "0", "A">>),
           Some(<<"%", "C", "3", "b">>)}
    /\ url_name \in {None, Some(<<"u", ":", "%", "2", "F">>)}
    /\ os_type \in OS
    /\ DownloadAt("call")

SpecName == InitName /\ [][NextDownload]_vars

\* The name a source gives, as extract_file_name returns it.
Cleaned(name) ==
    replace_invalid_chars_with_underscore(decode_percent_encoded_to_utf_8(name), os_type)

\* The positions of execute_download between the resolution of the name and
\* the result of the streaming loop.
NameResolved ==
    dl_pc \in {"dispatch", "known_loop", "streamed_loop", "known_done", "streamed_done"}

\* C16: the file name is the --rename override when given; else the name
\* from the Content-Disposition header when it gives one; else the name from
\* the path of the response URL; else the name the user enters, and the user
\* is asked only when the three other sources give nothing.  The name is
\* resolved after the size state is determined and before the file is
\* created.
C16_NamePrecedence ==
    /\ filename # <<>> =>
          /\ default_file_name.some => filename = default_file_name.val
          /\ (~default_file_name.some /\ content_disposition_name.some)
               => filename = Cleaned(content_disposition_name.val)
          /\ (~default_file_name.some /\ ~content_disposition_name.some /\ url_name.some)
               => filename = Cleaned(url_name.val)
          /\ (~default_file_name.some /\ ~content_disposition_name.some /\ ~url_name.some)
               => filename \in EnteredNames(os_type)
    /\ (default_file_name.some \/ content_disposition_name.some \/ url_name.some)
          => dl_pc # "prompt"
    /\ filename # <<>> => file_size_state.some /\ file_size_state.val.tag \in {"Known", "Chunked"}
    /\ NameResolved => filename # <<>>
    /\ dest.some => filename # <<>>
    /\ dl_pc \in {"call", "size", "name"} => filename = <<>> /\ dest = None

C16_Witness ==
    /\ ~default_file_name.some
    /\ content_disposition_name = Some(<<"c", "?">>)
    /\ url_name.some
    /\ os_type = "Windows"
    /\ filename = <<"c", "_">>
    /\ dest.some

----------------------------------------------------------------------------
(* Sanitizing a file name: replace_invalid_chars_with_underscore,
   utils.rs:311-323, called on its own and on its own result *)

\* The longest file name given to the function.
MaxFileNameLen == 3

\* The characters of the file names given: a legal letter, the underscore,
\* the characters illegal everywhere and some illegal on Windows only.
FileNameChars == {"a", "_", ":", "/", "\\", "?", "*", "dquote"}

FileNames == SeqsOf(FileNameChars, 0, MaxFileNameLen)

InitSanitize ==
    /\ p = <<>>
    /\ is_dir = FALSE
    /\ tree = {}
    /\ unreadable = {}
    /\ content = <<>>
    /\ algorithm = "SHA2_256"
    /\ include_names = FALSE
    /\ InitThreads
    /\ NoRename
    /\ NoCommand
    /\ response = None
    /\ default_file_name = None
    /\ content_disposition_name = None
    /\ url_name = None
    /\ os_type \in OS
    /\ DownloadAt("idle")
    /\ sanitize_input \in FileNames
    /\ sanitized = None
    /\ sanitized_twice = None
    /\ hash_input = <<>>
    /\ parse_result = None

\* replace_invalid_chars_with_underscore(filename, &os_type)
sanitize ==
    /\ sanitized = None
    /\ sanitized' = Some(replace_invalid_chars_with_underscore(sanitize_input, os_type))
    /\ UNCHANGED <<localVars, renameVars, dlVars, cmdVars, sanitize_input, sanitized_twice,
                   hash_input, parse_result>>

\* replace_invalid_chars_with_underscore(&sanitized, &os_type)
sanitize_again ==
    /\ sanitized.some
    /\ sanitized_twice = None
    /\ sanitized_twice' = Some(replace_invalid_chars_with_underscore(sanitized.val, os_type))
    /\ UNCHANGED <<localVars, renameVars, dlVars, cmdVars, sanitize_input, sanitized,
                   hash_input, parse_result>>

NextSanitize ==
    \/ sanitize
    \/ sanitize_again

SpecSanitize == InitSanitize /\ [][NextSanitize]_vars

\* The characters illegal in a file name of the OS.
IllegalFor(os) ==
    IF os = "Windows" THEN WINDOWS_INVALID_FILE_NAME_CHARS
                      ELSE UNIX_INVALID_FILE_NAME_CHARS

\* C17: replace_invalid_chars_with_underscore puts '_' in the place of every
\* character illegal for the OS and leaves every other character where it
\* was: the output is as long as the input, holds no illegal character, and
\* the function applied to its own output returns that output.
C17_ReplacesInPlace ==
    /\ sanitized.some =>
          /\ Len(sanitized.val) = Len(sanitize_input)
          /\ \A i \in 1..Len(sanitize_input) :
                IF sanitize_input[i] \in IllegalFor(os_type)
                THEN sanitized.val[i] = "_"
                ELSE sanitized.val[i] = sanitize_input[i]
          /\ \A i \in 1..Len(sanitized.val) :
                sanitized.val[i] \notin IllegalFor(os_type)
    /\ sanitized_twice.some => sanitized_twice = sanitized

\* A Windows name with a legal character between two illegal ones, sanitized
\* twice.
C17_Witness ==
    /\ os_type = "Windows"
    /\ sanitize_input = <<"?", "a", ":">>
    /\ sanitized = Some(<<"_", "a", "_">>)
    /\ sanitized_twice.some

----------------------------------------------------------------------------
(* Parsing an expected hash: parse_hash, hasher.rs:195-221 *)

\* The code points with the Unicode property White_Space, which
\* char::is_whitespace tests: U+0009..U+000D, U+0020, U+0085, U+00A0, U+1680,
\* U+2000..U+200A, U+2028, U+2029, U+202F, U+205F, U+3000.
WhiteSpaceCodePoints ==
    (9..13) \cup {32, 133, 160, 5760} \cup (8192..8202)
            \cup {8232, 8233, 8239, 8287, 12288}

\* The characters str::trim removes.
WhiteSpace == {CharOf(cp) : cp \in WhiteSpaceCodePoints}

RECURSIVE trim_start(_)
trim_start(s) ==
    IF s # <<>> /\ Head(s) \in WhiteSpace THEN trim_start(Tail(s)) ELSE s

RECURSIVE trim_end(_)
trim_end(s) ==
    IF s # <<>> /\ s[Len(s)] \in WhiteSpace
    THEN trim_end(SubSeq(s, 1, Len(s) - 1))
    ELSE s

\* str::trim.
trim(s) == trim_end(trim_start(s))

UpperCaseLetters ==
    <<"A", "B", "C", "D", "E", "F", "G", "H", "I", "J", "K", "L", "M",
      "N", "O", "P", "Q", "R", "S", "T", "U", "V", "W", "X", "Y", "Z">>

LowerCaseLetters ==
    <<"a", "b", "c", "d", "e", "f", "g", "h", "i", "j", "k", "l", "m",
      "n", "o", "p", "q", "r", "s", "t", "u", "v", "w", "x", "y", "z">>

\* str::to_ascii_lowercase.
to_ascii_lowercase(s) ==
    [i \in 1..Len(s) |->
        IF \E k \in 1..Len(UpperCaseLetters) : UpperCaseLetters[k] = s[i]
        THEN LowerCaseLetters[CHOOSE k \in 1..Len(UpperCaseLetters) : UpperCaseLetters[k] = s[i]]
        ELSE s[i]]

\* A variant of from_str that compares the prefix as it is spelled.
from_str_CaseSensitive(v) ==
    LET s == trim(v)
    IN
        CASE s \in {<<"s", "h", "a", "2", "2", "4">>,
                    <<"s", "h", "a", "2", "-", "2", "2", "4">>,
                    <<"s", "h", "a", "2", "_", "2", "2", "4">>}
               -> Ok("SHA2_224")
          [] s \in {<<"s", "h", "a", "2", "5", "6">>,
                    <<"s", "h", "a", "2", "-", "2", "5", "6">>,
                    <<"s", "h", "a", "2", "_", "2", "5", "6">>}
               -> Ok("SHA2_256")
          [] s \in {<<"s", "h", "a", "3", "8", "4">>,
                    <<"s", "h", "a", "2", "-", "3", "8", "4">>,
                    <<"s", "h", "a", "2", "_", "3", "8", "4">>}
               -> Ok("SHA2_384")
          [] s \in {<<"s", "h", "a", "5", "1", "2">>,
                    <<"s", "h", "a", "2", "-", "5", "1", "2">>,
                    <<"s", "h", "a", "2", "_", "5", "1", "2">>}
               -> Ok("SHA2_512")
          [] s \in {<<"s", "h", "a", "3", "-", "2", "2", "4">>,
                    <<"s", "h", "a", "3", "_", "2", "2", "4">>}
               -> Ok("SHA3_224")
          [] s \in {<<"s", "h", "a", "3", "-", "2", "5", "6">>,
                    <<"s", "h", "a", "3", "_", "2", "5", "6">>}
               -> Ok("SHA3_256")
          [] s \in {<<"s", "h", "a", "3", "-", "3", "8", "4">>,
                    <<"s", "h", "a", "3", "_", "3", "8", "4">>}
               -> Ok("SHA3_384")
          [] s \in {<<"s", "h", "a", "3", "-", "5", "1", "2">>,
                    <<"s", "h", "a", "3", "_", "5", "1", "2">>}
               -> Ok("SHA3_512")
          [] OTHER -> Err("ParseAlgorithmError")

\* <Algorithm as FromStr>::from_str
from_str(v) ==
    LET s == to_ascii_lowercase(trim(v))
    IN
        CASE s \in {<<"s", "h", "a", "2", "2", "4">>,
                    <<"s", "h", "a", "2", "-", "2", "2", "4">>,
                    <<"s", "h", "a", "2", "_", "2", "2", "4">>}
               -> Ok("SHA2_224")
          [] s \in {<<"s", "h", "a", "2", "5", "6">>,
                    <<"s", "h", "a", "2", "-", "2", "5", "6">>,
                    <<"s", "h", "a", "2", "_", "2", "5", "6">>}
               -> Ok("SHA2_256")
          [] s \in {<<"s", "h", "a", "3", "8", "4">>,
                    <<"s", "h", "a", "2", "-", "3", "8", "4">>,
                    <<"s", "h", "a", "2", "_", "3", "8", "4">>}
               -> Ok("SHA2_384")
          [] s \in {<<"s", "h", "a", "5", "1", "2">>,
                    <<"s", "h", "a", "2", "-", "5", "1", "2">>,
                    <<"s", "h", "a", "2", "_", "5", "1", "2">>}
               -> Ok("SHA2_512")
          [] s \in {<<"s", "h", "a", "3", "-", "2", "2", "4">>,
                    <<"s", "h", "a", "3", "_", "2", "2", "4">>}
               -> Ok("SHA3_224")
          [] s \in {<<"s", "h", "a", "3", "-", "2", "5", "6">>,
                    <<"s", "h", "a", "3", "_", "2", "5", "6">>}
               -> Ok("SHA3_256")
          [] s \in {<<"s", "h", "a", "3", "-", "3", "8", "4">>,
                    <<"s", "h", "a", "3", "_", "3", "8", "4">>}
               -> Ok("SHA3_384")
          [] s \in {<<"s", "h", "a", "3", "-", "5", "1", "2">>,
                    <<"s", "h", "a", "3", "_", "5", "1", "2">>}
               -> Ok("SHA3_512")
          [] OTHER -> Err("ParseAlgorithmError")

\* str::split_once(':'): what precedes and what follows the first delimiter.
split_once(s, delimiter) ==
    LET at == {i \in 1..Len(s) : s[i] = delimiter}
    IN  IF at = {} THEN None
        ELSE LET k == CHOOSE i \in at : \A j \in at : i <= j
             IN  Some(<<SubSeq(s, 1, k - 1), SubSeq(s, k + 1, Len(s))>>)

\* hex::decode works on the bytes of the string: their number is checked
\* first, then the bytes from the left, two to a byte of the result.  A byte
\* that is no hex digit is reported as the character with that code point
\* (u8 as char) at its byte index.
hex_decode(data) ==
    LET hex == as_bytes(data)
        bad == {i \in 1..Len(hex) : ~IsHexDigit(CharOf(hex[i]))}
    IN  IF Len(hex) % 2 # 0 THEN Err([tag |-> "OddLength"])
        ELSE IF bad # {}
        THEN LET k == CHOOSE i \in bad : \A j \in bad : i <= j
             IN  Err([tag |-> "InvalidHexCharacter", c |-> CharOf(hex[k]),
                      index |-> k - 1])
        ELSE Ok([i \in 1..(Len(hex) \div 2) |->
                    16 * HexValue(CharOf(hex[2 * i - 1]))
                       + HexValue(CharOf(hex[2 * i]))])

\* FromHexError's to_string, the message in pieces.
FromHexError_to_string(err) ==
    IF err.tag = "OddLength" THEN <<"Odd number of digits">>
    ELSE <<"Invalid character ", err.c, " at position ", err.index>>

\* enum HashValidationError.
UnknownPrefix == [kind |-> "UnknownPrefix"]
EmptyHash == [kind |-> "EmptyHash"]
HexError(err) == [kind |-> "HexError", err |-> err]

\* A variant of parse_hash that takes the digest of an input whose prefix
\* names no algorithm.
parse_hash_IgnorePrefix(input) ==
    IF trim(input) = <<>> THEN Err(EmptyHash)
    ELSE LET split == split_once(input, ":")
             hash == IF split.some THEN split.val[2] ELSE input
             alg == IF split.some /\ from_str(split.val[1]).ok
                    THEN Some(from_str(split.val[1]).val)
                    ELSE None
         IN  IF ~hex_decode(hash).ok
             THEN Err(HexError(FromHexError_to_string(hex_decode(hash).err)))
             ELSE Ok([hash |-> hash, algorithm |-> alg])

parse_hash(input) ==
    IF trim(input) = <<>> THEN Err(EmptyHash)
    ELSE LET split == split_once(input, ":")
         IN  IF split.some /\ ~from_str(split.val[1]).ok
             THEN Err(UnknownPrefix)
             ELSE LET hash == IF split.some THEN split.val[2] ELSE input
                      alg == IF split.some
                             THEN Some(from_str(split.val[1]).val)
                             ELSE None
                  IN  IF ~hex_decode(hash).ok
                      THEN Err(HexError(FromHexError_to_string(hex_decode(hash).err)))
                      ELSE Ok([hash |-> hash, algorithm |-> alg])

\* The longest digest part drawn from DigestChars.
MaxDigestLen == 3

\* The characters of the digest parts: hex digits of both cases, a letter
\* that is no hex digit, a blank and the delimiter.
DigestChars == {"a", "F", "0", "g", " ", ":"}

Digests ==
    SeqsOf(DigestChars, 0, MaxDigestLen)
      \cup {<<"d", "e", "a", "d", "b", "e", "e", "f">>,
            <<"d", "e", "a", "d", "b", "e", "e">>,
            <<"D", "e", "A", "d", "B", "e", "E", "f">>,
            <<CharOf(233)>>,
            <<"a", CharOf(233)>>,
            <<CharOf(233), "a">>,
            <<"a", "0", "\r">>}

\* The spellings of the aliases from_str knows.
KnownAliases ==
    {<<"s", "h", "a", "2", "2", "4">>,
     <<"s", "h", "a", "2", "-", "2", "2", "4">>,
     <<"s", "h", "a", "2", "_", "2", "2", "4">>,
     <<"s", "h", "a", "2", "5", "6">>,
     <<"s", "h", "a", "2", "-", "2", "5", "6">>,
     <<"s", "h", "a", "2", "_", "2", "5", "6">>,
     <<"s", "h", "a", "3", "8", "4">>,
     <<"s", "h", "a", "2", "-", "3", "8", "4">>,
     <<"s", "h", "a", "2", "_", "3", "8", "4">>,
     <<"s", "h", "a", "5", "1", "2">>,
     <<"s", "h", "a", "2", "-", "5", "1", "2">>,
     <<"s", "h", "a", "2", "_", "5", "1", "2">>,
     <<"s", "h", "a", "3", "-", "2", "2", "4">>,
     <<"s", "h", "a", "3", "_", "2", "2", "4">>,
     <<"s", "h", "a", "3", "-", "2", "5", "6">>,
     <<"s", "h", "a", "3", "_", "2", "5", "6">>,
     <<"s", "h", "a", "3", "-", "3", "8", "4">>,
     <<"s", "h", "a", "3", "_", "3", "8", "4">>,
     <<"s", "h", "a", "3", "-", "5", "1", "2">>,
     <<"s", "h", "a", "3", "_", "5", "1", "2">>}

\* str::to_ascii_uppercase, for the upper-case spellings of the prefixes.
to_ascii_uppercase(s) ==
    [i \in 1..Len(s) |->
        IF \E k \in 1..Len(LowerCaseLetters) : LowerCaseLetters[k] = s[i]
        THEN UpperCaseLetters[CHOOSE k \in 1..Len(LowerCaseLetters) : LowerCaseLetters[k] = s[i]]
        ELSE s[i]]

\* The prefixes put before the delimiter: the aliases in lower case, in upper
\* case, with a capital first letter, between blanks and between a vertical
\* tab and a carriage return, and prefixes that name no algorithm.
HashPrefixes ==
    KnownAliases
      \cup {to_ascii_uppercase(a) : a \in KnownAliases}
      \cup {to_ascii_uppercase(SubSeq(a, 1, 1)) \o Tail(a) : a \in KnownAliases}
      \cup {<<" ">> \o a \o <<"\t">> : a \in KnownAliases}
      \cup {<<CharOf(11)>> \o a \o <<"\r">> : a \in KnownAliases}
      \cup {<<"m", "d", "5">>,
            <<"\r", CharOf(160)>>,
            <<"s", "h", "a", "1">>,
            <<"t", "e", "s", "t">>,
            <<>>,
            <<" ">>,
            <<"\n", " ", "\t">>,
            <<"s", "h", "a", "3", "2", "2", "4">>,
            <<"s", "h", "a", "2", " ", "2", "5", "6">>,
            <<"s", "h", "a", "-", "2", "5", "6">>}

HashInputs ==
    Digests
      \cup {prefix \o <<":">> \o digest : prefix \in HashPrefixes, digest \in Digests}
      \cup {<<"\n", " ", " ", " ", " ", "\t">>, <<"\t">>,
            <<"\r">>, <<"\r", "\n">>, <<CharOf(11)>>, <<CharOf(8195), CharOf(12)>>}

InitParse ==
    /\ p = <<>>
    /\ is_dir = FALSE
    /\ tree = {}
    /\ unreadable = {}
    /\ content = <<>>
    /\ algorithm = "SHA2_256"
    /\ include_names = FALSE
    /\ InitThreads
    /\ NoRename
    /\ NoCommand
    /\ NoDownload
    /\ sanitize_input = <<>>
    /\ sanitized = None
    /\ sanitized_twice = None
    /\ hash_input \in HashInputs
    /\ parse_result = None

\* parse_hash(input)
parse_hash_call ==
    /\ parse_result = None
    /\ parse_result' = Some(parse_hash(hash_input))
    /\ UNCHANGED <<localVars, renameVars, dlVars, cmdVars, sanitize_input, sanitized,
                   sanitized_twice, hash_input>>

NextParse == parse_hash_call

SpecParse == InitParse /\ [][NextParse]_vars

\* The aliases and the variant each names: sha<bits> and sha2<sep><bits> for
\* SHA-2, sha3<sep><bits> for SHA-3, the separator '-' or '_'.
AliasTable ==
    {[alias |-> <<"s", "h", "a", "2", "2", "4">>, variant |-> "SHA2_224"],
     [alias |-> <<"s", "h", "a", "2", "-", "2", "2", "4">>, variant |-> "SHA2_224"],
     [alias |-> <<"s", "h", "a", "2", "_", "2", "2", "4">>, variant |-> "SHA2_224"],
     [alias |-> <<"s", "h", "a", "2", "5", "6">>, variant |-> "SHA2_256"],
     [alias |-> <<"s", "h", "a", "2", "-", "2", "5", "6">>, variant |-> "SHA2_256"],
     [alias |-> <<"s", "h", "a", "2", "_", "2", "5", "6">>, variant |-> "SHA2_256"],
     [alias |-> <<"s", "h", "a", "3", "8", "4">>, variant |-> "SHA2_384"],
     [alias |-> <<"s", "h", "a", "2", "-", "3", "8", "4">>, variant |-> "SHA2_384"],
     [alias |-> <<"s", "h", "a", "2", "_", "3", "8", "4">>, variant |-> "SHA2_384"],
     [alias |-> <<"s", "h", "a", "5", "1", "2">>, variant |-> "SHA2_512"],
     [alias |-> <<"s", "h", "a", "2", "-", "5", "1", "2">>, variant |-> "SHA2_512"],
     [alias |-> <<"s", "h", "a", "2", "_", "5", "1", "2">>, variant |-> "SHA2_512"],
     [alias |-> <<"s", "h", "a", "3", "-", "2", "2", "4">>, variant |-> "SHA3_224"],
     [alias |-> <<"s", "h", "a", "3", "_", "2", "2", "4">>, variant |-> "SHA3_224"],
     [alias |-> <<"s", "h", "a", "3", "-", "2", "5", "6">>, variant |-> "SHA3_256"],
     [alias |-> <<"s", "h", "a", "3", "_", "2", "5", "6">>, variant |-> "SHA3_256"],
     [alias |-> <<"s", "h", "a", "3", "-", "3", "8", "4">>, variant |-> "SHA3_384"],
     [alias |-> <<"s", "h", "a", "3", "_", "3", "8", "4">>, variant |-> "SHA3_384"],
     [alias |-> <<"s", "h", "a", "3", "-", "5", "1", "2">>, variant |-> "SHA3_512"],
     [alias |-> <<"s", "h", "a", "3", "_", "5", "1", "2">>, variant |-> "SHA3_512"]}

\* The same letter, whatever the case of either.
SameLetter(c, d) ==
    \/ c = d
    \/ \E k \in 1..Len(UpperCaseLetters) :
          {c, d} = {UpperCaseLetters[k], LowerCaseLetters[k]}

\* A spelling of the alias in some letter case.
Spells(prefix, alias) ==
    /\ Len(prefix) = Len(alias)
    /\ \A i \in 1..Len(alias) : SameLetter(prefix[i], alias[i])

\* A non-empty string of hex digits of even length.
IsEvenHex(h) ==
    /\ h # <<>>
    /\ Len(h) % 2 = 0
    /\ \A i \in 1..Len(h) : h[i] \in {HexDigitChars[k] : k \in 1..Len(HexDigitChars)}

\* The positions of the first ':' of the input (none or one).
FirstColon ==
    {i \in 1..Len(hash_input) :
        /\ hash_input[i] = ":"
        /\ \A j \in 1..(i - 1) : hash_input[j] # ":"}

PrefixBefore(i) == SubSeq(hash_input, 1, i - 1)

DigestAfter(i) == SubSeq(hash_input, i + 1, Len(hash_input))

\* C18: a non-empty hex string of even length parses to itself, case kept,
\* with no algorithm; an alias in any letter case, a ':' and such a hex string
\* parse to the hex string and the variant the alias names.
C18_ValidInputParses ==
    parse_result.some =>
        /\ IsEvenHex(hash_input) =>
              parse_result.val = Ok([hash |-> hash_input, algorithm |-> None])
        /\ \A i \in FirstColon : \A e \in AliasTable :
              (Spells(PrefixBefore(i), e.alias) /\ IsEvenHex(DigestAfter(i))) =>
                 parse_result.val =
                    Ok([hash |-> DigestAfter(i), algorithm |-> Some(e.variant)])

\* A mixed-case digest parsed behind an upper-case alias with '_'.
C18_Witness ==
    /\ hash_input = <<"S", "H", "A", "3", "_", "5", "1", "2", ":",
                      "D", "e", "A", "d", "B", "e", "E", "f">>
    /\ parse_result =
          Some(Ok([hash |-> <<"D", "e", "A", "d", "B", "e", "E", "f">>,
                   algorithm |-> Some("SHA3_512")]))

\* Only white space, or nothing.
IsBlank(s) == \A i \in 1..Len(s) : s[i] \in WhiteSpace

\* The prefix, the blanks around it left out, spells no alias.
NamesNoAlgorithm(prefix) ==
    \A e \in AliasTable :
        \A lo \in 1..(Len(prefix) + 1) : \A hi \in 0..Len(prefix) :
            ~ /\ IsBlank(SubSeq(prefix, 1, lo - 1))
              /\ IsBlank(SubSeq(prefix, hi + 1, Len(prefix)))
              /\ Spells(SubSeq(prefix, lo, hi), e.alias)

\* An odd number of characters, or a character that is no hex digit.
BadDigest(h) ==
    \/ Len(h) % 2 = 1
    \/ \E i \in 1..Len(h) : h[i] \notin {HexDigitChars[k] : k \in 1..Len(HexDigitChars)}

ParseFailedWith(kind) ==
    /\ ~parse_result.val.ok
    /\ parse_result.val.err.kind = kind

\* C19: a blank or empty input fails with EmptyHash; an input whose prefix
\* before the first ':' names no algorithm fails with UnknownPrefix; an input
\* without prefix, or with one that names an algorithm, whose digest part
\* has an odd number of characters or a character that is no hex digit
\* fails with HexError; none of these inputs is accepted.
C19_BadInputClassified ==
    parse_result.some =>
        /\ IsBlank(hash_input) => ParseFailedWith("EmptyHash")
        /\ \A i \in FirstColon :
              NamesNoAlgorithm(PrefixBefore(i)) => ParseFailedWith("UnknownPrefix")
        /\ (~IsBlank(hash_input) /\ FirstColon = {} /\ BadDigest(hash_input))
              => ParseFailedWith("HexError")
        /\ \A i \in FirstColon :
              (~NamesNoAlgorithm(PrefixBefore(i)) /\ BadDigest(DigestAfter(i)))
                 => ParseFailedWith("HexError")
        /\ \A i \in FirstColon : BadDigest(DigestAfter(i)) => ~parse_result.val.ok

\* md5 before a valid digest: refused for the prefix.
C19_Witness ==
    /\ hash_input = <<"m", "d", "5", ":", "a", "F">>
    /\ parse_result = Some(Err(UnknownPrefix))

\* C20: every successful parse_hash returns a hash that is non-empty and
\* made of hex digits only, and an algorithm that is Some only when the
\* input has a prefix that names that algorithm.
C20_SuccessIsValidDigest ==
    (parse_result.some /\ parse_result.val.ok) =>
        /\ parse_result.val.val.hash # <<>>
        /\ \A i \in 1..Len(parse_result.val.val.hash) :
              IsHexDigit(parse_result.val.val.hash[i])
        /\ parse_result.val.val.algorithm.some =>
              \E i \in FirstColon : ~NamesNoAlgorithm(PrefixBefore(i))

\* C21: parse_hash gives for every input the result it gives for the trimmed
\* input, so a valid reference between blanks is accepted and yields the
\* digest without the blanks.
C21_TrimmedBeforeParsing ==
    parse_result.some => parse_result.val = parse_hash(trim(hash_input))

----------------------------------------------------------------------------
(* The known-size loop against the announced size: download.rs:274-362 *)

KnownSize == file_size_state.some /\ file_size_state.val.tag = "Known"

\* C26: a known-size download returns the file path only when the bytes
\* written are as many as the total size the headers gave; a body that ends
\* with an empty read before that is not reported as complete.
C26_CompleteOrNotReported ==
    (KnownSize /\ dl_pc = "done" /\ dl_ret.some /\ dl_ret.val.ok)
        => Len(dest.val) = file_size_state.val.size

\* With a known size the bar stands at the smaller of downloaded_bytes and
\* total_size.
C29_PositionIsMin ==
    KnownSize =>
        /\ pb_position <= file_size_state.val.size
        /\ pb_position <= downloaded_bytes
        /\ pb_position \in {downloaded_bytes, file_size_state.val.size}

\* No iteration of the known-size loop takes the bar or the count back.
C29_NeverBack ==
    dl_pc = "known_loop" =>
        /\ pb_position' >= pb_position
        /\ downloaded_bytes' >= downloaded_bytes

\* C29: in the known-size loop the position of the progress bar is after every
\* iteration min(downloaded_bytes, total_size), also when the body is longer
\* than announced, and neither the position nor downloaded_bytes decreases.
C29_ProgressCapped == []C29_PositionIsMin /\ [][C29_NeverBack]_vars

\* A body longer than the announced size, read to its end.
C29_Witness ==
    /\ KnownSize
    /\ dl_pc = "known_done"
    /\ downloaded_bytes = MaxBodyLen
    /\ downloaded_bytes > file_size_state.val.size
    /\ pb_position = file_size_state.val.size

----------------------------------------------------------------------------
(* hash_directory over a tree with directories that cannot be listed:
   local.rs:188-194 *)

\* The directories of the tree, the root (the empty relative path) included.
DirsOf(t) == {<<>>} \cup {e.path : e \in {x \in t : x.kind = "dir"}}

InitWalk ==
    /\ p \in DirPaths
    /\ is_dir = TRUE
    /\ tree \in Trees
    /\ unreadable \in SUBSET DirsOf(tree)
    /\ content = <<>>
    /\ algorithm = "SHA2_256"
    /\ include_names \in BOOLEAN
    /\ InitThreads
    /\ NoRename
    /\ NoCommand
    /\ NoCalls
    /\ NoDownload

SpecWalk == InitWalk /\ [][NextDir]_vars

\* C27: hash_directory returns a digest only when the walk enumerated every
\* entry under the root; an entry the walk cannot read makes it fail.
C27_AllEnumeratedOrFails ==
    (worker_result.some /\ worker_result.val.ok)
        => {entries[i].path : i \in 1..Len(entries)} = {p \o e.path : e \in tree}

----------------------------------------------------------------------------
(* Comparing hash sums: hasher.rs:191-193 and verify.rs:197-199, and the
   local command that stores the comparison: cli.rs:183-189,
   command_handling.rs:132-175 *)

\* A variant of the comparison that tells the letter cases apart.
is_hash_equal_Exact(origin_hash_sum, calculated_hash_sum) ==
    origin_hash_sum = calculated_hash_sum

\* hasher::is_hash_equal: str::eq_ignore_ascii_case.
is_hash_equal(origin_hash_sum, calculated_hash_sum) ==
    to_ascii_lowercase(origin_hash_sum) = to_ascii_lowercase(calculated_hash_sum)

\* verify::is_hash_equal
verify_is_hash_equal(origin_hash_sum, calculated_hash_sum) ==
    origin_hash_sum # calculated_hash_sum

\* hasher.rs:228-230, the check cli.rs:184 calls: not blank and hex digits
\* only.
is_valid_hex_digit(hash) ==
    /\ trim(hash) # <<>>
    /\ \A i \in 1..Len(hash) : IsHexDigit(hash[i])

\* cli.rs:183-189, the value parser of HASH_SUM.
validate_hash_sum(hash_sum) ==
    IF ~is_valid_hex_digit(hash_sum) THEN Err("InvalidHashSum") ELSE Ok(hash_sum)

\* The longest hash sum given to the comparisons on their own.
MaxHashLen == 2

\* The characters of those hash sums: a letter in both cases and a digit.
HashChars == {"a", "A", "1"}

ComparedPairs ==
    {<<a, b>> : a \in SeqsOf(HashChars, 0, MaxHashLen),
                b \in SeqsOf(HashChars, 0, MaxHashLen)}

\* The buffers of the local command, "J" and "Jk": text whose bytes have
\* letters among their hex digits.
CmdBuffers == {<<74>>, <<74, 107>>}

\* The file of the local command, "f", and what it holds: "J".
CmdPath == <<<<102>>>>

CmdFileContent == <<74>>

CmdDigests == {get_buffer_hash(b, a) : b \in CmdBuffers, a \in Algorithm}

\* The reference hash sums of the local command: the digests as computed, in
\* upper case, cut short, extended and behind a prefix, and strings that are
\* no hash sum.
CmdReferences ==
    CmdDigests
      \cup {to_ascii_uppercase(d) : d \in CmdDigests}
      \cup {SubSeq(d, 1, Len(d) - 2) : d \in CmdDigests}
      \cup {d \o <<"0", "0">> : d \in CmdDigests}
      \cup {a \o <<":">> \o d :
              a \in {<<"s", "h", "a", "5", "1", "2">>,
                     <<"S", "H", "A", "3", "-", "2", "5", "6">>,
                     <<"m", "d", "5">>},
              d \in CmdDigests}
      \cup {<<>>, <<" ">>, <<"x", "y">>}

\* Only what InitCompare and InitLocalCmd set differently is left open.
NoHashing ==
    /\ p = <<>>
    /\ is_dir = FALSE
    /\ tree = {}
    /\ unreadable = {}
    /\ content = <<>>
    /\ algorithm = "SHA2_256"
    /\ include_names = FALSE
    /\ InitThreads
    /\ NoRename
    /\ NoCalls
    /\ NoDownload
    /\ cmd_result = None
    /\ cmd_log = <<>>
    /\ exit_status = None
    /\ cmp_result = None
    /\ verify_cmp_result = None
    /\ pcL = "unspawned"
    /\ is_calculating_checksum = FALSE

\* Two hash sums are about to be compared.
InitCompare ==
    /\ NoHashing
    /\ args = None
    /\ cmd_pc = "idle"
    /\ cmp_input \in ComparedPairs

\* The local command is about to be parsed: hashguard local [HASH_SUM]
\* [--path PATH | --buffer STRING] --algorithm A [--include-names] [--save].
\* The path, when given, is that of an existing file.
InitLocalCmd ==
    /\ NoHashing
    /\ args \in {Some(a) : a \in {a \in [command : {"local"},
                         hash_sum : {None} \cup {Some(r) : r \in CmdReferences},
                         path : {None, Some(CmdPath)},
                         buffer : {None} \cup {Some(c) : c \in CmdBuffers},
                         algorithm : Algorithm,
                         include_names : BOOLEAN,
                         save : BOOLEAN,
                         download_result : {None}] :
                     /\ a.include_names => a.path.some
                     /\ (a.path.some /\ a.buffer.some) => a.buffer = Some(<<74>>)}}
    /\ cmd_pc = "parse"
    /\ cmp_input = <<>>

\* What download::execute_download returns to handle_download_cmd: the
\* location of the file and its hash sum, or an error.
DownloadResults ==
    {Err("execute_download")}
      \cup {Ok([file_location |-> <<<<100>>, <<102>>>>, hash_sum |-> h]) :
               h \in {get_buffer_hash(<<74>>, "SHA2_256"),
                      get_buffer_hash(<<74>>, "SHA3_512")}}

\* The download command has been parsed and handle_download_cmd is about to
\* be called: hashguard download URL [HASH_SUM] --algorithm A [--save].
InitHandleDownloadCmd ==
    /\ NoHashing
    /\ args \in {Some(a) : a \in
                  [command : {"download"},
                  hash_sum : {None} \cup {Some(r) : r \in CmdDigests},
                  path : {None},
                  buffer : {None},
                  algorithm : Algorithm,
                  include_names : {FALSE},
                  save : BOOLEAN,
                  download_result : {Some(r) : r \in DownloadResults}]}
    /\ cmd_pc = "handle_download"
    /\ cmp_input = <<>>

InitCmd == InitCompare \/ InitLocalCmd \/ InitHandleDownloadCmd

\* hasher::is_hash_equal(origin_hash_sum, calculated_hash_sum)
is_hash_equal_call ==
    /\ cmp_input # <<>>
    /\ cmp_result = None
    /\ cmp_result' = Some(is_hash_equal(cmp_input[1], cmp_input[2]))
    /\ UNCHANGED <<localVars, renameVars, dlVars, utilVars, args, cmd_pc, cmd_result,
                   cmd_log, exit_status, cmp_input, verify_cmp_result, pcL,
                   is_calculating_checksum>>

\* verify::is_hash_equal(origin_hash_sum, calculated_hash_sum)
verify_is_hash_equal_call ==
    /\ cmp_input # <<>>
    /\ verify_cmp_result = None
    /\ verify_cmp_result' = Some(verify_is_hash_equal(cmp_input[1], cmp_input[2]))
    /\ UNCHANGED <<localVars, renameVars, dlVars, utilVars, args, cmd_pc, cmd_result,
                   cmd_log, exit_status, cmp_input, cmp_result, pcL,
                   is_calculating_checksum>>

\* Cli::parse(): the value parser of HASH_SUM runs on the argument given, and
\* --path conflicts with --buffer (cli.rs:99, 109); an error ends the process
\* with the usage error.
parse_local_args ==
    /\ cmd_pc = "parse"
    /\ IF args.val.hash_sum.some /\ ~validate_hash_sum(args.val.hash_sum.val).ok
       THEN /\ cmd_pc' = "usage_error"
            /\ cmd_log' = Append(cmd_log, [op |-> "eprintln",
                                           val |-> validate_hash_sum(args.val.hash_sum.val).err])
       ELSE IF args.val.path.some /\ args.val.buffer.some
       THEN /\ cmd_pc' = "usage_error"
            /\ cmd_log' = Append(cmd_log, [op |-> "eprintln", val |-> "ArgumentConflict"])
       ELSE /\ cmd_pc' = "handle"
            /\ UNCHANGED cmd_log
    /\ UNCHANGED <<localVars, renameVars, dlVars, utilVars, args, cmd_result,
                   exit_status, cmp_input, cmp_result, verify_cmp_result, pcL,
                   is_calculating_checksum>>

\* command_handling.rs:133-147: what is hashed, the path before the buffer;
\* the results get_hash_for_object can give for the file (local.rs:76-124:
\* the digest, the errors of hash_file, a worker that could not be spawned,
\* a worker that panicked; the receive error is never returned, since the
\* worker ends without sending only by a panic, and the join error then
\* comes first), the one of get_buffer_hash, or the error of the call with
\* neither.
calculate_for(a) ==
    IF a.path.some
    THEN {Ok([calculated_hash_sum |->
                  hash_file(a.path.val, CmdFileContent, a.algorithm, a.include_names),
              file_location |-> a.path, buffer |-> None]),
          ErrAt("Failed to open file", a.path.val),
          ErrAt("Failed to read from file", a.path.val),
          ErrAt("Failed to spawn Hash-Worker-Thread.", <<>>),
          ErrAt("Failed to join Hash-Worker-Thread.", <<>>)}
    ELSE IF a.buffer.some
    THEN {Ok([calculated_hash_sum |-> get_buffer_hash(a.buffer.val, a.algorithm),
              file_location |-> None, buffer |-> a.buffer])}
    ELSE {Err("Either a path or a buffer must be provided.")}

\* command_handling.rs:105-128 and 149-171: the CommandResult, with the
\* comparison when a hash sum was given.
CommandResult(a, file_location, buffer, calculated_hash_sum) ==
    [file_location |-> file_location,
     buffer |-> buffer,
     used_algorithm |-> a.algorithm,
     calculated_hash_sum |-> calculated_hash_sum,
     hash_compare_result |->
         IF a.hash_sum.some
         THEN Some([is_hash_equal |-> is_hash_equal(a.hash_sum.val, calculated_hash_sum),
                    origin_hash_sum |-> a.hash_sum.val])
         ELSE None,
     save |-> a.save]

\* utils.rs:29-92: the lines processing_cmd_result prints: the source, the
\* calculated hash sum, and with a comparison the given hash sum in lower
\* case and the verdict.
printed_result(r) ==
    <<[op |-> "println", val |-> <<"Input source", r.file_location, r.buffer>>],
      [op |-> "println", val |-> <<"Calculated hash", r.calculated_hash_sum>>]>>
    \o (IF r.hash_compare_result.some
        THEN <<[op |-> "println",
                val |-> <<"Given hash",
                          to_ascii_lowercase(r.hash_compare_result.val.origin_hash_sum)>>],
               [op |-> "println",
                val |-> <<IF r.hash_compare_result.val.is_hash_equal
                          THEN "Hash sums match" ELSE "Hash sums DO NOT match",
                          r.used_algorithm>>]>>
        ELSE <<[op |-> "println", val |-> <<"- Used hash algorithm", r.used_algorithm>>]>>)

\* utils.rs:95-126: the file save_calculated_hash_sum writes into the data
\* directory: named after the hashed file, or hash_sum for a buffer, with the
\* algorithm as its extension; it holds the hash sum, a tab and that name or
\* the buffer.
hash_sum_file(r) ==
    LET prefix == IF r.file_location.some
                  THEN (IF file_name(r.file_location.val).some
                        THEN to_string_lossy(file_name(r.file_location.val).val)
                        ELSE "hash_sum")
                  ELSE "hash_sum"
        subject == IF r.file_location.some THEN prefix ELSE r.buffer.val
    IN [op |-> "write",
        val |-> [file_name |-> <<prefix, ".", r.used_algorithm>>,
                 content |-> <<r.calculated_hash_sum, "\t", subject>>]]

\* utils::processing_cmd_result(&cmd_result)?: the lines are printed; with
\* --save the hash sum file is written, and a failure of std::fs::write is
\* the error of the command.
processing_cmd_result(r) ==
    \/ /\ cmd_log' = cmd_log \o printed_result(r)
                            \o (IF r.save THEN <<hash_sum_file(r)>> ELSE <<>>)
       /\ cmd_pc' = "done"
    \/ /\ r.save
       /\ cmd_log' = cmd_log \o printed_result(r)
                            \o <<[op |-> "error", val |-> "std::fs::write"]>>
       /\ cmd_pc' = "failed"

\* command_handling.rs:132-175: hash the path or else the buffer with
\* args.algorithm, compare with the reference when one is given, build the
\* CommandResult and process it.
handle_local_cmd ==
    /\ cmd_pc = "handle"
    /\ \E calculated \in calculate_for(args.val) :
          IF ~calculated.ok
          THEN /\ cmd_pc' = "failed"
               /\ cmd_log' = Append(cmd_log, [op |-> "error", val |-> calculated.err])
               /\ UNCHANGED cmd_result
          ELSE LET r == CommandResult(args.val, calculated.val.file_location,
                                      calculated.val.buffer,
                                      calculated.val.calculated_hash_sum)
               IN /\ cmd_result' = Some(r)
                  /\ processing_cmd_result(r)
    /\ UNCHANGED <<localVars, renameVars, dlVars, utilVars, args, exit_status,
                   cmp_input, cmp_result, verify_cmp_result, pcL,
                   is_calculating_checksum>>

\* command_handling.rs:75-131: download, then compare the hash sum of the
\* download with the reference when one is given, build the CommandResult
\* and process it.
handle_download_cmd ==
    /\ cmd_pc = "handle_download"
    /\ LET downloaded == args.val.download_result.val
       IN IF ~downloaded.ok
          THEN /\ cmd_pc' = "failed"
               /\ cmd_log' = Append(cmd_log, [op |-> "error", val |-> downloaded.err])
               /\ UNCHANGED cmd_result
          ELSE LET r == CommandResult(args.val, Some(downloaded.val.file_location),
                                      None, downloaded.val.hash_sum)
               IN /\ cmd_result' = Some(r)
                  /\ processing_cmd_result(r)
    /\ UNCHANGED <<localVars, renameVars, dlVars, utilVars, args, exit_status,
                   cmp_input, cmp_result, verify_cmp_result, pcL,
                   is_calculating_checksum>>

NextCmd ==
    \/ is_hash_equal_call
    \/ verify_is_hash_equal_call
    \/ parse_local_args
    \/ handle_local_cmd
    \/ handle_download_cmd

SpecCmd == InitCmd /\ [][NextCmd]_vars

\* The local command has run to its end, whichever.
LocalCmdOver == args.some /\ cmd_pc \in {"usage_error", "failed", "done"}

\* C22: a reference hash with an algorithm prefix has the digest computed and
\* reported with the algorithm of the prefix, whatever --algorithm says; a
\* bare reference hash leaves the algorithm to --algorithm.
C22_PrefixOverridesFlag ==
    (LocalCmdOver /\ args.val.hash_sum.some /\ args.val.buffer.some
       /\ parse_hash(args.val.hash_sum.val).ok)
    => LET reference == parse_hash(args.val.hash_sum.val).val
           selected == IF reference.algorithm.some
                       THEN reference.algorithm.val
                       ELSE args.val.algorithm
       IN  /\ cmd_result.some
           /\ cmd_result.val.used_algorithm = selected
           /\ cmd_result.val.calculated_hash_sum =
                 get_buffer_hash(args.val.buffer.val, selected)

\* Equal up to the case of the letters: as long, and the same letter at
\* every place.
EqualIgnoringCase(a, b) ==
    /\ Len(a) = Len(b)
    /\ \A i \in 1..Len(a) : SameLetter(a[i], b[i])

\* C23: hasher::is_hash_equal is true exactly for two strings that are equal
\* up to the case of their letters, so never for strings of different
\* lengths, and the flag in the CommandResult is its value for the reference
\* and the calculated hash sum.
C23_EqualIgnoringCase ==
    /\ cmp_result.some =>
          cmp_result.val = EqualIgnoringCase(cmp_input[1], cmp_input[2])
    /\ cmd_result.some =>
          IF args.val.hash_sum.some
          THEN /\ cmd_result.val.hash_compare_result.some
               /\ cmd_result.val.hash_compare_result.val.origin_hash_sum
                     = args.val.hash_sum.val
               /\ cmd_result.val.hash_compare_result.val.is_hash_equal
                     = EqualIgnoringCase(args.val.hash_sum.val,
                                         cmd_result.val.calculated_hash_sum)
          ELSE cmd_result.val.hash_compare_result = None

\* The digest in upper case given as the reference: a match.
C23_Witness ==
    /\ cmd_result.some
    /\ args.val.hash_sum.some
    /\ args.val.hash_sum.val # cmd_result.val.calculated_hash_sum
    /\ cmd_result.val.hash_compare_result.val.is_hash_equal

\* C30: verify::is_hash_equal is true exactly when the two hash sums are the
\* same string.
C30_TrueWhenSame ==
    verify_cmp_result.some => verify_cmp_result.val = (cmp_input[1] = cmp_input[2])

----------------------------------------------------------------------------
(* The download command: commands.rs:60-169, with the file name rules of
   filename_handling.rs:17-71 *)

\* Regex ^[^:/\\]+$
is_filename_valid_on_unix(name) ==
    /\ name # <<>>
    /\ \A i \in 1..Len(name) : name[i] \notin {":", "/", "\\"}

\* Regex ^[^<>:"/\\|?*]+$
is_filename_valid_on_windows(name) ==
    /\ name # <<>>
    /\ \A i \in 1..Len(name) :
          name[i] \notin {"<", ">", ":", "dquote", "/", "\\", "|", "?", "*"}

\* The names reserved on Windows, as the regex lists them.
ReservedNames ==
    {<<"C", "O", "N">>, <<"P", "R", "N">>, <<"A", "U", "X">>, <<"N", "U", "L">>,
     <<"C", "O", "M", "1">>, <<"C", "O", "M", "2">>, <<"C", "O", "M", "3">>, <<"C", "O", "M", "4">>,
     <<"C", "O", "M", "5">>, <<"C", "O", "M", "6">>, <<"C", "O", "M", "7">>, <<"C", "O", "M", "8">>,
     <<"C", "O", "M", "9">>, <<"L", "P", "T", "1">>, <<"L", "P", "T", "2">>, <<"L", "P", "T", "3">>,
     <<"L", "P", "T", "4">>, <<"L", "P", "T", "5">>, <<"L", "P", "T", "6">>, <<"L", "P", "T", "7">>,
     <<"L", "P", "T", "8">>, <<"L", "P", "T", "9">>}

\* Regex ^(?i:CON|PRN|AUX|NUL|COM[1-9]|LPT[1-9])(\..+)?$
is_reserved_filename_on_windows(name) ==
    LET dots == {i \in 1..Len(name) : name[i] = "."}
        stem == IF dots = {} THEN name
                ELSE SubSeq(name, 1, (CHOOSE i \in dots : \A j \in dots : i <= j) - 1)
        rest == SubSeq(name, Len(stem) + 1, Len(name))
    IN  /\ to_ascii_uppercase(stem) \in ReservedNames
        /\ \/ rest = <<>>
           \/ /\ Len(rest) >= 2
              /\ \A i \in 2..Len(rest) : rest[i] # "\n"

is_valid_filename(os, name) ==
    IF os \in {"Linux", "MacOs"} THEN is_filename_valid_on_unix(name)
    ELSE IF name # <<>> /\ name[Len(name)] = "." THEN FALSE
    ELSE IF is_reserved_filename_on_windows(name) THEN FALSE
    ELSE is_filename_valid_on_windows(name)

\* enum CommandError.
OutputTargetInvalid(target) == [kind |-> "OutputTargetInvalid", val |-> target]
InvalidUrl == [kind |-> "InvalidUrl", val |-> <<>>]
RenameOptionInvalid(text) == [kind |-> "RenameOptionInvalid", val |-> text]

\* filename_err.to_string(): the text of the error validate_filename gives
\* for a name.  The sources hold neither the error type nor its text; the
\* text stands for whatever it is.
filename_err_to_string == "filename_err"

\* filename_handling::validate_filename(os_type, filename), which
\* commands.rs:100, commands.rs:112 and cli.rs:157 call.  The sources hold
\* its callers only; it is modelled from the file name rules of the OS the
\* specification names as its interface, which are the rules
\* is_valid_filename applies.
validate_filename(os, name) ==
    IF is_valid_filename(os, name) THEN Ok(name)
    ELSE Err(filename_err_to_string)

\* A variant of the check of --rename that takes any name.
rename_result_Unchecked(os, name) == Ok(name)

\* commands.rs:100-106: the name given with --rename, or RenameOptionInvalid
\* with the text of the error of its validation.
rename_result(os, name) ==
    IF validate_filename(os, name).ok THEN Ok(name)
    ELSE Err(RenameOptionInvalid(validate_filename(os, name).err))

\* The names given with --rename: valid, invalid everywhere, invalid or
\* reserved on Windows only, ending in a dot, empty.
RenameArgs ==
    {None}
      \cup {Some(n) : n \in {<<"f">>, <<"a", "/", "b">>, <<"a", "?">>,
                             <<"c", "o", "n">>, <<"f", ".">>, <<>>}}

\* The URLs: whether Url::parse accepts them with scheme, host and path, and
\* the last component of their path.
Urls ==
    [valid : BOOLEAN,
     file_name : {None, Some(<<"f">>), Some(<<"a", "?">>)}]

\* The values of --output: not given, a directory, no directory.
OutputArgs ==
    {None, Some([path |-> "out", is_dir |-> TRUE]),
           Some([path |-> "missing", is_dir |-> FALSE])}

\* The download command is about to run: its arguments, and what the
\* environment holds (the download folder of the user, the working directory).
InitDownloadCmd ==
    /\ p = <<>>
    /\ is_dir = FALSE
    /\ tree = {}
    /\ unreadable = {}
    /\ content = <<>>
    /\ algorithm = "SHA2_256"
    /\ include_names = FALSE
    /\ InitThreads
    /\ NoRename
    /\ NoCalls
    /\ response = None
    /\ default_file_name = None
    /\ content_disposition_name = None
    /\ url_name = None
    /\ os_type \in OS
    /\ DownloadAt("idle")
    /\ args \in {Some([output |-> o, url |-> u, rename |-> r,
                       download_folder |-> d, current_dir |-> c]) :
                   o \in OutputArgs, u \in Urls, r \in RenameArgs,
                   d \in {None, Some("home/Downloads")},
                   c \in {Ok("cwd"), Err([kind |-> "io", val |-> <<>>])}}
    /\ cmd_pc = "output_target"
    /\ cmd_result = None
    /\ cmd_log = <<>>
    /\ exit_status = None
    /\ cmp_input = <<>>
    /\ cmp_result = None
    /\ verify_cmp_result = None
    /\ pcL = "unspawned"
    /\ is_calculating_checksum = FALSE

\* What the download command leaves alone.
cmdFixedVars ==
    <<localVars, renameVars, dlVars, utilVars, args, cmp_input,
      cmp_result, verify_cmp_result, pcL, is_calculating_checksum>>

\* return Err(..) / the ? operator.
cmd_return(value) ==
    /\ cmd_result' = Some(value)
    /\ cmd_pc' = "returned"

\* The last value logged for a step.
Logged(op) ==
    LET at == {i \in 1..Len(cmd_log) : cmd_log[i].op = op}
    IN  cmd_log[CHOOSE i \in at : \A j \in at : j <= i].val

\* commands.rs:65-92: the output target given must be a directory; without
\* one the download folder of the user, else the working directory.
resolve_output_target ==
    /\ cmd_pc = "output_target"
    /\ LET given == args.val.output
           target ==
               IF given.some
               THEN IF given.val.is_dir THEN Ok(given.val.path)
                    ELSE Err(OutputTargetInvalid(given.val.path))
               ELSE IF args.val.download_folder.some
               THEN Ok(args.val.download_folder.val)
               ELSE args.val.current_dir
       IN  IF target.ok
           THEN /\ cmd_log' = Append(cmd_log, [op |-> "output_target", val |-> target.val])
                /\ cmd_pc' = "url"
                /\ UNCHANGED cmd_result
           ELSE /\ cmd_return(target)
                /\ UNCHANGED cmd_log
    /\ UNCHANGED <<cmdFixedVars, exit_status>>

\* commands.rs:97 and 165-168: the URL must be valid.
check_url ==
    /\ cmd_pc = "url"
    /\ IF args.val.url.valid
       THEN /\ cmd_pc' = "file_name"
            /\ UNCHANGED cmd_result
       ELSE cmd_return(Err(InvalidUrl))
    /\ UNCHANGED <<cmdFixedVars, cmd_log, exit_status>>

\* What enter_and_verify_file_name does for its caller at position pc: it
\* returns a name the user entered (next is then taken with the name), fails
\* (the `?` of the caller returns the error), ends the process with exit(1)
\* when stdin cannot be read (filename_handling.rs:133-140), or prompts for
\* ever when stdin is at its end.
PromptOutcomes(os) ==
    {[kind |-> "entered", val |-> n] : n \in EnteredNames(os)}
      \cup {[kind |-> k, val |-> <<>>] : k \in {"failed", "exit(1)", "prompt"}}

\* commands.rs:99-143: the name of --rename when valid; without --rename the
\* name the URL ends in when valid, else a name the user enters, asked for
\* after a warning and a request have been printed (commands.rs:115-121 and
\* 129-134).
resolve_file_name ==
    /\ cmd_pc = "file_name"
    /\ LET from_url == args.val.url.file_name
           prompts == ~args.val.rename.some
                      /\ ~(from_url.some /\ validate_filename(os_type, from_url.val).ok)
           printed ==
               IF prompts
               THEN cmd_log \o
                    <<[op |-> "println",
                       val |-> IF from_url.some
                               THEN "The extracted filename from the URL is invalid"
                               ELSE "Could not extract filename from URL"],
                      [op |-> "println",
                       val |-> "Please enter a name for the file to be downloaded"]>>
               ELSE cmd_log
       IN \E prompt \in (IF prompts THEN PromptOutcomes(os_type)
                         ELSE {[kind |-> "none", val |-> <<>>]}) :
            LET name_result ==
                    IF args.val.rename.some
                    THEN rename_result(os_type, args.val.rename.val)
                    ELSE IF ~prompts THEN Ok(from_url.val)
                    ELSE IF prompt.kind = "entered" THEN Ok(prompt.val)
                    ELSE Err([kind |-> "io", val |-> "enter_and_verify_file_name"])
            IN  IF prompt.kind \in {"exit(1)", "prompt"}
                THEN /\ cmd_pc' = prompt.kind
                     /\ exit_status' = IF prompt.kind = "exit(1)" THEN Some(1) ELSE None
                     /\ cmd_log' = IF prompt.kind = "exit(1)"
                                   THEN Append(printed, [op |-> "println",
                                                         val |-> "Failed to read from STDIN"])
                                   ELSE printed
                     /\ UNCHANGED cmd_result
                ELSE IF name_result.ok
                THEN /\ cmd_log' = Append(printed, [op |-> "file_name", val |-> name_result.val])
                     /\ cmd_pc' = "download"
                     /\ UNCHANGED <<cmd_result, exit_status>>
                ELSE /\ cmd_return(name_result)
                     /\ cmd_log' = printed
                     /\ UNCHANGED exit_status
    /\ UNCHANGED cmdFixedVars

\* commands.rs:146-151: download_file(download_url, &file_destination)?, the
\* request and the writing of the file.
download_file_call ==
    /\ cmd_pc = "download"
    /\ LET file_destination == <<Logged("output_target"), Logged("file_name")>>
       IN  /\ cmd_log' = Append(cmd_log, [op |-> "download_file", val |-> file_destination])
           /\ \/ /\ cmd_pc' = "verify"
                 /\ UNCHANGED cmd_result
              \/ cmd_return(Err([kind |-> "download", val |-> file_destination]))
    /\ UNCHANGED <<cmdFixedVars, exit_status>>

\* commands.rs:154-164: hash the file, compare, build the result.
is_file_modified_call ==
    /\ cmd_pc = "verify"
    /\ \/ \E is_file_modified \in BOOLEAN :
            cmd_return(Ok([is_file_modified |-> is_file_modified,
                           file_destination |-> Logged("download_file")]))
       \/ cmd_return(Err([kind |-> "verify", val |-> Logged("download_file")]))
    /\ UNCHANGED <<cmdFixedVars, cmd_log, exit_status>>

NextDownloadCmd ==
    \/ resolve_output_target
    \/ check_url
    \/ resolve_file_name
    \/ download_file_call
    \/ is_file_modified_call

SpecDownloadCmd == InitDownloadCmd /\ [][NextDownloadCmd]_vars

\* The download was started: the request sent, the file written.
DownloadStarted == \E i \in 1..Len(cmd_log) : cmd_log[i].op = "download_file"

\* The file name rules, as the doc comments of filename_handling.rs give
\* them.
NameAllowed(os, name) ==
    /\ name # <<>>
    /\ \A i \in 1..Len(name) : name[i] \notin IllegalFor(os)
    /\ os = "Windows" =>
          /\ name[Len(name)] # "."
          /\ \A r \in ReservedNames :
                ~ /\ Len(name) >= Len(r)
                  /\ Spells(SubSeq(name, 1, Len(r)), r)
                  /\ (Len(name) > Len(r) => name[Len(r) + 1] = "." /\ Len(name) > Len(r) + 1)

OutputTargetPassed == args.val.output.some => args.val.output.val.is_dir

UrlPassed == args.val.url.valid

\* The name given with --rename passed.
RenamePassed == args.val.rename.some => NameAllowed(os_type, args.val.rename.val)

\* The URL ends in a name, and the name passed.
UrlNamePassed ==
    /\ args.val.url.file_name.some
    /\ NameAllowed(os_type, args.val.url.file_name.val)

\* The file name the arguments give: the one of --rename, else the one the
\* URL ends in, if any.
GivenFileName ==
    IF args.val.rename.some THEN args.val.rename ELSE args.val.url.file_name

FileNamePassed == GivenFileName.some => NameAllowed(os_type, GivenFileName.val)

\* Neither --output nor a download folder, and the working directory cannot
\* be determined: the error of current_dir() is returned first.
NoWorkingDir ==
    /\ ~args.val.output.some
    /\ ~args.val.download_folder.some
    /\ ~args.val.current_dir.ok

\* The command has returned an error of this kind.
ReturnedError(kind) ==
    /\ cmd_pc = "returned"
    /\ ~cmd_result.val.ok
    /\ cmd_result.val.err.kind = kind

\* The user was asked for a name: the request was printed.
Prompted ==
    \E i \in 1..Len(cmd_log) :
        /\ cmd_log[i].op = "println"
        /\ cmd_log[i].val = "Please enter a name for the file to be downloaded"

\* The command has got as far as its file name: the output target and the
\* URL passed.
AtFileName == OutputTargetPassed /\ ~NoWorkingDir /\ UrlPassed

\* C24 as claimed: perform_download_command starts the download only after
\* the output target, the URL and the file name passed their validation, and
\* with one of them invalid it returns the validation error, no download
\* started.
C24_InvalidReturnsValidationError ==
    /\ DownloadStarted => (OutputTargetPassed /\ UrlPassed /\ FileNamePassed)
    /\ (cmd_pc = "returned" /\ ~(OutputTargetPassed /\ UrlPassed /\ FileNamePassed))
         => /\ ~DownloadStarted
            /\ ~cmd_result.val.ok
            /\ cmd_result.val.err.kind
                  \in {"OutputTargetInvalid", "InvalidUrl", "RenameOptionInvalid"}

\* C24 (amended): the download starts only with an output target and a URL
\* that passed and under a file name that passed: the name of --rename, else
\* the name the URL ends in, else (that name invalid or absent) a name the
\* user entered when asked.  An invalid output target, URL or --rename name
\* makes the command return OutputTargetInvalid, InvalidUrl,
\* RenameOptionInvalid, in this order of precedence, no download started; a
\* working directory that cannot be determined makes it return that io error
\* before the URL and the name are looked at; an invalid name in the URL is
\* no error: the user is asked, and without --rename the only error of the
\* name step is the one of the prompt.
C24_ValidatedBeforeDownload ==
    /\ DownloadStarted =>
          /\ AtFileName
          /\ NameAllowed(os_type, Logged("file_name"))
          /\ args.val.rename.some => Logged("file_name") = args.val.rename.val
          /\ (~args.val.rename.some /\ UrlNamePassed)
                => /\ Logged("file_name") = args.val.url.file_name.val
                   /\ ~Prompted
          /\ (~args.val.rename.some /\ ~UrlNamePassed)
                => /\ Logged("file_name") \in EnteredNames(os_type)
                   /\ Prompted
    /\ (cmd_pc = "returned" /\ ~OutputTargetPassed)
          => /\ ReturnedError("OutputTargetInvalid")
             /\ cmd_result.val.err.val = args.val.output.val.path
             /\ ~DownloadStarted
    /\ (cmd_pc = "returned" /\ NoWorkingDir)
          => ReturnedError("io") /\ ~DownloadStarted
    /\ (cmd_pc = "returned" /\ OutputTargetPassed /\ ~NoWorkingDir /\ ~UrlPassed)
          => ReturnedError("InvalidUrl") /\ ~DownloadStarted
    /\ (cmd_pc = "returned" /\ AtFileName /\ ~RenamePassed)
          => ReturnedError("RenameOptionInvalid") /\ ~DownloadStarted
    /\ (cmd_pc = "returned" /\ AtFileName /\ ~args.val.rename.some /\ ~DownloadStarted)
          => /\ ~UrlNamePassed
             /\ Prompted
             /\ ReturnedError("io")
    /\ cmd_pc \in {"exit(1)", "prompt"}
          => /\ AtFileName /\ ~args.val.rename.some /\ ~UrlNamePassed
             /\ Prompted
             /\ ~DownloadStarted

\* A name reserved on Windows given with --rename: refused, nothing
\* downloaded.
C24_Witness ==
    /\ os_type = "Windows"
    /\ args.val.rename = Some(<<"c", "o", "n">>)
    /\ OutputTargetPassed
    /\ UrlPassed
    /\ cmd_pc = "returned"
    /\ cmd_result = Some(Err(RenameOptionInvalid(filename_err_to_string)))
    /\ ~DownloadStarted

----------------------------------------------------------------------------
(* The process and its exit status: main.rs:17-207 *)

\* The process is started with a download or a local command; what the
\* environment holds: the OS, the download folder, the working directory,
\* whether the local file exists.
InitMain ==
    /\ p = <<>>
    /\ is_dir = FALSE
    /\ tree = {}
    /\ unreadable = {}
    /\ content = <<>>
    /\ algorithm = "SHA2_256"
    /\ include_names = FALSE
    /\ InitThreads
    /\ NoRename
    /\ NoCalls
    /\ NoDownload
    /\ args \in {Some([command |-> c, os |-> o, output |-> out, url |-> u,
                       download_folder |-> d, current_dir |-> w, file_exists |-> e]) :
                   c \in {"download", "local"},
                   o \in {None} \cup {Some(os) : os \in OS},
                   out \in OutputArgs, u \in Urls,
                   d \in {None, Some("home/Downloads")},
                   w \in {Ok("cwd"), Err([kind |-> "io", val |-> <<>>])},
                   e \in BOOLEAN}
    /\ cmd_pc = "main"
    /\ cmd_result = None
    /\ cmd_log = <<>>
    /\ exit_status = None
    /\ cmp_input = <<>>
    /\ cmp_result = None
    /\ verify_cmp_result = None
    /\ pcL = "unspawned"
    /\ is_calculating_checksum = FALSE

\* What the steps of main leave alone.
mainFixedVars ==
    <<localVars, renameVars, dlVars, utilVars, args, cmd_result, cmp_input,
      cmp_result, verify_cmp_result, pcL, is_calculating_checksum>>

\* println! of each of the messages, then the end of the process with the
\* status: by std::process::exit(status), by the return of main (status 0)
\* or by a panic (status 101).
print_and_exit(msgs, status) ==
    /\ cmd_log' = cmd_log \o [i \in 1..Len(msgs) |-> [op |-> "println", val |-> msgs[i]]]
    /\ exit_status' = Some(status)
    /\ cmd_pc' = "exited"

\* main.rs:17-49: the OS must be supported, then the command is chosen.
main ==
    /\ cmd_pc = "main"
    /\ IF ~args.val.os.some
       THEN print_and_exit(<<"Unable to execute, your current Operating-System is unsupported.">>, 0)
       ELSE /\ cmd_pc' = IF args.val.command = "download"
                         THEN "perform_download_command"
                         ELSE "perform_local_command"
            /\ UNCHANGED <<cmd_log, exit_status>>
    /\ UNCHANGED mainFixedVars

\* main.rs:51-126: the output directory, the URL and the file name: the
\* name the URL ends in when it is valid for the OS, else a name the user
\* enters; the prompt can end the process or never return.
main_perform_download_command ==
    /\ cmd_pc = "perform_download_command"
    /\ LET given == args.val.output
           from_url == args.val.url.file_name
           warning == IF from_url.some
                      THEN "The extracted filename from the URL is invalid -> Specify your own filename"
                      ELSE "Could not extract filename from URL -> Specify your own filename"
       IN  IF given.some /\ ~given.val.is_dir
           THEN print_and_exit(<<"The specified output target does not exist or is not a directory">>, 0)
           ELSE IF ~given.some /\ ~args.val.download_folder.some /\ ~args.val.current_dir.ok
           THEN print_and_exit(<<"panic: current_dir().unwrap()">>, 101)
           ELSE IF ~args.val.url.valid
           THEN print_and_exit(<<"Invalid URL - Specify a valid URL for the file download">>, 0)
           ELSE IF from_url.some /\ is_valid_filename(args.val.os.val, from_url.val)
           THEN /\ cmd_pc' = "download_file"
                /\ UNCHANGED <<cmd_log, exit_status>>
           ELSE \E prompt \in {o \in PromptOutcomes(args.val.os.val) : o.kind # "failed"} :
                  IF prompt.kind = "exit(1)"
                  THEN print_and_exit(<<warning, "Failed to read from STDIN">>, 1)
                  ELSE /\ cmd_log' = Append(cmd_log, [op |-> "println", val |-> warning])
                       /\ cmd_pc' = IF prompt.kind = "prompt" THEN "prompt" ELSE "download_file"
                       /\ UNCHANGED exit_status
    /\ UNCHANGED mainFixedVars

\* What verify::is_file_modified does for main: the hash sums match, differ,
\* the file cannot be processed, or the process ends in it: with exit(1)
\* after an interrupt (verify.rs:148) or with the panic of an expect
\* (verify.rs:177, 185, 189).
VerifyOutcomes ==
    {[msg |-> "Hash sum match", ends |-> None],
     [msg |-> "Hash sum do not match", ends |-> None],
     [msg |-> "File could not be processed", ends |-> None],
     [msg |-> "APP_INTERRUPTED_MSG", ends |-> Some(1)],
     [msg |-> "panic: expect", ends |-> Some(101)]}

\* main.rs:127-170: the download, then the hash sum of the file compared
\* and the location of the file printed.
main_download_file ==
    /\ cmd_pc = "download_file"
    /\ \/ print_and_exit(<<"download failed">>, 0)
       \/ \E verified \in VerifyOutcomes :
             IF verified.ends.some
             THEN print_and_exit(<<verified.msg>>, verified.ends.val)
             ELSE print_and_exit(<<verified.msg, "File location">>, 0)
    /\ UNCHANGED mainFixedVars

\* main.rs:173-207: the file must exist, then its hash sum is compared.
main_perform_local_command ==
    /\ cmd_pc = "perform_local_command"
    /\ IF args.val.file_exists
       THEN \E verified \in VerifyOutcomes :
               print_and_exit(<<verified.msg>>,
                              IF verified.ends.some THEN verified.ends.val ELSE 0)
       ELSE print_and_exit(<<"Given file does no exist - Specify a path to an existing file">>, 0)
    /\ UNCHANGED mainFixedVars

NextMain ==
    \/ main
    \/ main_perform_download_command
    \/ main_download_file
    \/ main_perform_local_command

SpecMain == InitMain /\ [][NextMain]_vars

\* The run got as far as comparing the hash sum and printed the outcome.
RunSucceeded ==
    \E i \in 1..Len(cmd_log) :
        cmd_log[i].val \in {"Hash sum match", "Hash sum do not match"}

\* C25: the exit status is 0 after a successful run and only then; every
\* validation error and every runtime error ends the process with a status
\* that is not 0.
C25_StatusTellsSuccess ==
    exit_status.some => (exit_status.val = 0 <=> RunSucceeded)

\* ---------------------------------------------------------------------
\* verify::calculate_hash_sum (verify.rs:116-194): the calling thread, the
\* thread that listens for Ctrl-C and the thread that computes the digest.
\* ---------------------------------------------------------------------

\* verify.rs:136: the flag is created true, no thread is spawned yet, the
\* channel does not hold anything.
InitVerify ==
    /\ p = <<>>
    /\ is_dir = FALSE
    /\ tree = {}
    /\ unreadable = {}
    /\ content \in Contents
    /\ algorithm \in Algorithm
    /\ include_names = FALSE
    /\ pcC = "spawn_listener"
    /\ pcW = "unspawned"
    /\ chan = <<>>
    /\ received = None
    /\ ret = None
    /\ entries = <<>>
    /\ idx = 0
    /\ hasher = None
    /\ reader = None
    /\ buf = ZeroBuf
    /\ result = Ok(<<>>)
    /\ worker_result = None
    /\ log = <<>>
    /\ NoRename
    /\ NoCalls
    /\ NoDownload
    /\ args = None
    /\ cmd_pc = "idle"
    /\ cmd_result = None
    /\ cmd_log = <<>>
    /\ exit_status = None
    /\ cmp_input = <<>>
    /\ cmp_result = None
    /\ verify_cmp_result = None
    /\ pcL = "unspawned"
    /\ is_calculating_checksum = TRUE

\* The process has not been ended by std::process::exit.
ProcessRuns == exit_status = None

\* What the three threads of calculate_hash_sum leave alone.
verifyFixedVars ==
    <<inputVars, received, entries, idx, hasher, reader, buf, log, renameVars,
      utilVars, args, cmd_pc, cmd_result, cmp_input, cmp_result,
      verify_cmp_result>>

\* Of the download's variables only `interrupted` is used: it is the
\* negation of app::APP_SHOULD_RUN.
verifyDlFixedVars ==
    <<dlInputVars, dl_pc, file_size_state, consulted, filename, dest, writer,
      interrupt_reads, body_off, body_reads, downloaded_bytes, pb_position,
      download_result, dl_ret>>

\* The user presses Ctrl-C while calculate_hash_sum runs: the handler
\* stores false into app::APP_SHOULD_RUN.
verify_ctrl_c ==
    /\ ProcessRuns
    /\ pcC # "returned"
    /\ ~interrupted
    /\ interrupted' = TRUE
    /\ UNCHANGED <<verifyFixedVars, verifyDlFixedVars, pcC, pcW, pcL, chan, ret,
                   result, worker_result, is_calculating_checksum, cmd_log,
                   exit_status>>

\* verify.rs:141: thread::spawn of the listener.
spawn_listener ==
    /\ ProcessRuns
    /\ pcC = "spawn_listener"
    /\ pcL' = "load"
    /\ pcC' = "spawn_hash_sum"
    /\ UNCHANGED <<verifyFixedVars, dlVars, pcW, chan, ret, result,
                   worker_result, is_calculating_checksum, cmd_log, exit_status>>

\* verify.rs:154-156: mpsc::channel(), then thread::spawn of the hash sum
\* thread.
spawn_hash_sum ==
    /\ ProcessRuns
    /\ pcC = "spawn_hash_sum"
    /\ pcW' = "chksum"
    /\ pcC' = "join_listener"
    /\ UNCHANGED <<verifyFixedVars, dlVars, pcL, chan, ret, result,
                   worker_result, is_calculating_checksum, cmd_log, exit_status>>

\* verify.rs:142: the condition of the listener's while loop.
listener_load ==
    /\ ProcessRuns
    /\ pcL = "load"
    /\ pcL' = IF is_calculating_checksum THEN "check" ELSE "exited"
    /\ UNCHANGED <<verifyFixedVars, dlVars, pcC, pcW, chan, ret, result,
                   worker_result, is_calculating_checksum, cmd_log, exit_status>>

\* verify.rs:143-149: the body of the loop; an interrupted application is
\* ended with std::process::exit(1).
listener_check ==
    /\ ProcessRuns
    /\ pcL = "check"
    /\ IF interrupted
       THEN /\ cmd_log' = Append(cmd_log, [op |-> "println", val |-> "APP_INTERRUPTED_MSG"])
            /\ exit_status' = Some(1)
            /\ pcL' = "exit"
       ELSE /\ pcL' = "load"
            /\ UNCHANGED <<cmd_log, exit_status>>
    /\ UNCHANGED <<verifyFixedVars, dlVars, pcC, pcW, chan, ret, result,
                   worker_result, is_calculating_checksum>>

\* The hash sum thread with an error arm that leaves the flag as it is.
hash_sum_chksum_FlagKept ==
    /\ ProcessRuns
    /\ pcW = "chksum"
    /\ \/ /\ result' = Ok(get_buffer_hash(content, algorithm))
          /\ is_calculating_checksum' = FALSE
          /\ pcW' = "send"
          /\ UNCHANGED worker_result
       \/ /\ result' = Err("chksum_err")
          /\ UNCHANGED is_calculating_checksum
          /\ worker_result' = Some(Err("Failed to calculate hash sum for the specified file."))
          /\ pcW' = "exited"
    /\ UNCHANGED <<verifyFixedVars, dlVars, pcC, pcL, chan, ret, cmd_log,
                   exit_status>>

\* verify.rs:157-173: chksum::<T>(data) succeeds or fails; either arm stores
\* false into the flag, the error arm returns the error from the thread.
hash_sum_chksum ==
    /\ ProcessRuns
    /\ pcW = "chksum"
    /\ \/ /\ result' = Ok(get_buffer_hash(content, algorithm))
          /\ is_calculating_checksum' = FALSE
          /\ pcW' = "send"
          /\ UNCHANGED worker_result
       \/ /\ result' = Err("chksum_err")
          /\ is_calculating_checksum' = FALSE
          /\ worker_result' = Some(Err("Failed to calculate hash sum for the specified file."))
          /\ pcW' = "exited"
    /\ UNCHANGED <<verifyFixedVars, dlVars, pcC, pcL, chan, ret, cmd_log,
                   exit_status>>

\* verify.rs:175-178: the digest is sent through the channel.
hash_sum_send ==
    /\ ProcessRuns
    /\ pcW = "send"
    /\ chan' = Append(chan, result.val)
    /\ pcW' = "sent"
    /\ UNCHANGED <<verifyFixedVars, dlVars, pcC, pcL, ret, result,
                   worker_result, is_calculating_checksum, cmd_log, exit_status>>

\* verify.rs:179: Ok(()) ends the hash sum thread.
hash_sum_exit ==
    /\ ProcessRuns
    /\ pcW = "sent"
    /\ worker_result' = Some(Ok(<<>>))
    /\ pcW' = "exited"
    /\ UNCHANGED <<verifyFixedVars, dlVars, pcC, pcL, chan, ret, result,
                   is_calculating_checksum, cmd_log, exit_status>>

\* verify.rs:183-185: join blocks until the listener has ended.
join_listener ==
    /\ ProcessRuns
    /\ pcC = "join_listener"
    /\ pcL = "exited"
    /\ pcC' = "join_hash_sum"
    /\ UNCHANGED <<verifyFixedVars, dlVars, pcW, pcL, chan, ret, result,
                   worker_result, is_calculating_checksum, cmd_log, exit_status>>

\* verify.rs:187-191: join blocks until the hash sum thread has ended; the
\* `?` returns its error.
join_hash_sum ==
    /\ ProcessRuns
    /\ pcC = "join_hash_sum"
    /\ pcW = "exited"
    /\ IF worker_result.val.ok
       THEN /\ pcC' = "try_recv"
            /\ UNCHANGED ret
       ELSE /\ pcC' = "returned"
            /\ ret' = Some(worker_result.val)
    /\ UNCHANGED <<verifyFixedVars, dlVars, pcW, pcL, chan, result,
                   worker_result, is_calculating_checksum, cmd_log, exit_status>>

\* verify.rs:193: try_recv does not block; an empty channel is an error.
try_recv ==
    /\ ProcessRuns
    /\ pcC = "try_recv"
    /\ IF chan # <<>>
       THEN /\ ret' = Some(Ok(Head(chan)))
            /\ chan' = Tail(chan)
       ELSE /\ ret' = Some(Err("TryRecvError"))
            /\ UNCHANGED chan
    /\ pcC' = "returned"
    /\ UNCHANGED <<verifyFixedVars, dlVars, pcW, pcL, result, worker_result,
                   is_calculating_checksum, cmd_log, exit_status>>

\* The steps of the calling thread, of the listener and of the hash sum
\* thread.
CallerSteps == spawn_listener \/ spawn_hash_sum \/ join_listener \/ join_hash_sum \/ try_recv

ListenerSteps == listener_load \/ listener_check

HashSumSteps == hash_sum_chksum \/ hash_sum_send \/ hash_sum_exit

NextVerify ==
    \/ verify_ctrl_c
    \/ spawn_listener
    \/ spawn_hash_sum
    \/ listener_load
    \/ listener_check
    \/ hash_sum_chksum
    \/ hash_sum_send
    \/ hash_sum_exit
    \/ join_listener
    \/ join_hash_sum
    \/ try_recv

\* Each of the three is an operating-system thread: one that can take a step
\* is eventually scheduled. Ctrl-C is the user's and may never come.
SpecVerify ==
    /\ InitVerify
    /\ [][NextVerify]_vars
    /\ WF_vars(CallerSteps)
    /\ WF_vars(ListenerSteps)
    /\ WF_vars(HashSumSteps)

\* The hash sum thread has ended only with the flag cleared; it has sent the
\* digest, once, exactly when chksum succeeded, and before it ended; what is
\* returned is that digest after a success and the thread's error after a
\* failure, with try_recv never finding the channel empty.
C28_Handshake ==
    /\ pcW = "exited" => ~is_calculating_checksum
    /\ pcW = "exited" =>
          /\ result.ok => worker_result = Some(Ok(<<>>))
          /\ ~result.ok => (~worker_result.val.ok /\ chan = <<>>)
    /\ Len(chan) <= 1
    /\ pcC = "try_recv" => chan = <<result.val>>
    /\ pcC = "returned" =>
          /\ pcW = "exited"
          /\ pcL = "exited"
          /\ result.ok => ret = Some(Ok(get_buffer_hash(content, algorithm)))
          /\ ~result.ok => (ret = Some(worker_result.val) /\ chan = <<>>)

====
